---- MODULE Spec2Model ----
(***************************************************************************)
(* Garmin -> Notion reconciliation: garmin-activities.py (the standalone   *)
(* activities script), sync.py (the unified script), daily-steps.py and    *)
(* sleep-data.py.                                                          *)
(*                                                                         *)
(* Conventions of the model                                                *)
(*  - a Python str is a sequence of one-character strings, so that         *)
(*    lower(), title(), replace(), startswith() and `x in s` are computed  *)
(*    character by character;                                              *)
(*  - every number is an integer count of thousandths of its unit          *)
(*    (5.02 km is 5020, a tolerance of 0.01 is 10);                        *)
(*  - Python None is NoneNum where a number is expected and NoneStr where  *)
(*    a str or a select is expected;                                       *)
(*  - an instant is an integer count of milliseconds.                      *)
(***************************************************************************)
EXTENDS Integers, Sequences, FiniteSets, TLC

VARIABLES
    script,      \* "standalone" (garmin-activities.py) or "unified" (sync.py)
    DRY_RUN,     \* garmin-activities.py:36, set in main() from the environment
    activities,  \* the fetched batch, a sequence of source records
    store,       \* the Notion activities database: a sequence of pages
    store0,      \* the database as the run found it
    idx,         \* position of the `for activity in activities` loop
    pc,          \* control point of the driver
    existing,    \* what the current record resolved to (existing_activity)
    cnt,         \* created / updated / unchanged / skipped / errors
    cnt0,        \* the counters when the current record was taken up
    calls,       \* store calls issued for the current record, in order
    run,         \* 1: first run, 2: the run repeated on the same source
    failed,      \* number of store calls that raised so far (all runs)
    fn,          \* activity_needs_update called on its own: arguments, result
    daily,       \* daily steps / sleep loop state
    mainst       \* sync.py main(): state of the unified run

vars == <<script, DRY_RUN, activities, store, store0, idx, pc, existing, cnt, cnt0,
          calls, run, failed, fn, daily, mainst>>

drvVars == <<script, DRY_RUN, activities, store, store0, idx, pc, existing, cnt, cnt0,
             calls, run, failed>>

-----------------------------------------------------------------------------
(* Bounds of the model *)

MaxBatch == 2

MaxFailed == 2

-----------------------------------------------------------------------------
(* Python values *)

NoneNum == 0 - 1

NoneStr == <<"<None>">>

EmptyStr == <<>>

LowerAlpha == <<"a","b","c","d","e","f","g","h","i","j","k","l","m","n","o","p","q","r","s","t","u","v","w","x","y","z">>

UpperAlpha == <<"A","B","C","D","E","F","G","H","I","J","K","L","M","N","O","P","Q","R","S","T","U","V","W","X","Y","Z">>

Letters == {LowerAlpha[i] : i \in 1..26} \cup {UpperAlpha[i] : i \in 1..26}

\* c.lower() and c.upper() of a letter
LowerOf == [c \in Letters |->
              IF \E i \in 1..26 : UpperAlpha[i] = c
              THEN LowerAlpha[CHOOSE i \in 1..26 : UpperAlpha[i] = c] ELSE c]

UpperOf == [c \in Letters |->
              IF \E i \in 1..26 : LowerAlpha[i] = c
              THEN UpperAlpha[CHOOSE i \in 1..26 : LowerAlpha[i] = c] ELSE c]

IsCased(c) == c \in Letters

LowerChar(c) == IF c \in Letters THEN LowerOf[c] ELSE c

UpperChar(c) == IF c \in Letters THEN UpperOf[c] ELSE c

\* str.lower()
Lower(s) == SubSeq([i \in 1..Len(s) |-> LowerChar(s[i])], 1, Len(s))

\* str.title(): a cased character is upper-cased after an uncased one (or at
\* the start) and lower-cased after a cased one
Title(s) ==
    SubSeq([i \in 1..Len(s) |->
               IF i = 1 \/ ~IsCased(s[i - 1]) THEN UpperChar(s[i])
               ELSE LowerChar(s[i])], 1, Len(s))

\* str.replace('_', ' ')
ReplaceUnderscore(s) ==
    SubSeq([i \in 1..Len(s) |-> IF s[i] = "_" THEN " " ELSE s[i]], 1, Len(s))

\* `sub in s`
Contains(s, sub) ==
    \E i \in 0..(Len(s) - Len(sub)) : SubSeq(s, i + 1, i + Len(sub)) = sub

\* s.startswith(p)
StartsWith(s, p) == Len(p) <= Len(s) /\ SubSeq(s, 1, Len(p)) = p

\* index of the first occurrence of sub in s (0: none)
Find(s, sub) ==
    IF Contains(s, sub)
    THEN 1 + CHOOSE i \in 0..(Len(s) - Len(sub)) :
             /\ SubSeq(s, i + 1, i + Len(sub)) = sub
             /\ \A j \in 0..(i - 1) : SubSeq(s, j + 1, j + Len(sub)) # sub
    ELSE 0

\* str.replace(old, new), every non-overlapping occurrence, left to right
RECURSIVE Replace(_, _, _)
Replace(s, old, new) ==
    IF Find(s, old) = 0 THEN s
    ELSE SubSeq(s, 1, Find(s, old) - 1) \o new \o
         Replace(SubSeq(s, Find(s, old) + Len(old), Len(s)), old, new)

DigitChars == <<"0","1","2","3","4","5","6","7","8","9">>

\* str(n) for n >= 0
RECURSIVE Digits(_)
Digits(n) == IF n < 10 THEN <<DigitChars[n + 1]>>
             ELSE Digits(n \div 10) \o <<DigitChars[(n % 10) + 1]>>

\* f"{n:02d}" for n >= 0
TwoDigits(n) == IF n < 10 THEN <<"0">> \o Digits(n) ELSE Digits(n)

\* abs()
Abs(x) == IF x < 0 THEN 0 - x ELSE x

\* round(n / d) to the nearest integer, ties to the even one (n >= 0, d > 0)
RoundHalfEven(n, d) ==
    LET q == n \div d
        r == n % d
    IN  IF 2 * r < d THEN q
        ELSE IF 2 * r > d THEN q + 1
        ELSE IF q % 2 = 0 THEN q ELSE q + 1

\* round(x / d, 2), round(x, 1), round(x) of a value x given in thousandths
RoundDiv2(x, d) == 10 * RoundHalfEven(x, 10 * d)

Round1(x) == 100 * RoundHalfEven(x, 100)

Round0(x) == 1000 * RoundHalfEven(x, 1000)

-----------------------------------------------------------------------------
(* String literals of the source *)

\* the literals the source uses in more than one place
S_Unknown == <<"U","n","k","n","o","w","n">>
S_Barre == <<"B","a","r","r","e">>
S_Strength == <<"S","t","r","e","n","g","t","h">>
S_Meditation == <<"M","e","d","i","t","a","t","i","o","n">>
S_Stretching == <<"S","t","r","e","t","c","h","i","n","g">>
S_Rowing == <<"R","o","w","i","n","g">>
K_stretch == <<"s","t","r","e","t","c","h">>

-----------------------------------------------------------------------------
(* Field Formatter (identical in garmin-activities.py and sync.py) *)

\* activity_mapping: the formatted types that are remapped, and their target
activity_mapping ==
    { << S_Barre,
         S_Strength >>,
      << <<"I","n","d","o","o","r"," ","C","a","r","d","i","o">>,
         <<"C","a","r","d","i","o">> >>,
      << <<"I","n","d","o","o","r"," ","C","y","c","l","i","n","g">>,
         <<"C","y","c","l","i","n","g">> >>,
      << <<"I","n","d","o","o","r"," ","R","o","w","i","n","g">>,
         S_Rowing >>,
      << <<"S","p","e","e","d"," ","W","a","l","k","i","n","g">>,
         <<"W","a","l","k","i","n","g">> >>,
      << <<"S","t","r","e","n","g","t","h"," ","T","r","a","i","n","i","n","g">>,
         S_Strength >>,
      << <<"T","r","e","a","d","m","i","l","l"," ","R","u","n","n","i","n","g">>,
         <<"R","u","n","n","i","n","g">> >> }

\* a formatter that derives the pair from the type key alone: C17 does not hold
\* of it
format_activity_type_key_only(type_key, activity_name) ==
    <<Title(ReplaceUnderscore(type_key)), Title(ReplaceUnderscore(type_key))>>

\* format_activity_type(activity_type, activity_name) -> <<type, subtype>>
format_activity_type(type_key, activity_name) ==
    LET formatted_type ==
            IF type_key # NoneStr /\ type_key # EmptyStr
            THEN Title(ReplaceUnderscore(type_key)) ELSE S_Unknown
        t1 == IF formatted_type = <<"R","o","w","i","n","g"," ","V","2">>
              THEN S_Rowing
              ELSE IF formatted_type \in {<<"Y","o","g","a">>,
                                          <<"P","i","l","a","t","e","s">>}
              THEN <<"Y","o","g","a","/","P","i","l","a","t","e","s">>
              ELSE formatted_type
        t2 == IF \E m \in activity_mapping : m[1] = formatted_type
              THEN (CHOOSE m \in activity_mapping : m[1] = formatted_type)[2]
              ELSE t1
        named == activity_name # NoneStr /\ activity_name # EmptyStr
    IN  IF named /\ Contains(Lower(activity_name),
                             <<"m","e","d","i","t","a","t","i","o","n">>)
        THEN <<S_Meditation, S_Meditation>>
        ELSE IF named /\ Contains(Lower(activity_name), <<"b","a","r","r","e">>)
        THEN <<S_Strength, S_Barre>>
        ELSE IF named /\ Contains(Lower(activity_name), K_stretch)
        THEN <<S_Stretching, S_Stretching>>
        ELSE <<t2, formatted_type>>

\* format_entertainment(activity_name)
format_entertainment(activity_name) ==
    IF activity_name = NoneStr \/ activity_name = EmptyStr
    THEN <<"U","n","n","a","m","e","d"," ","A","c","t","i","v","i","t","y">>
    ELSE Replace(activity_name,
                 <<"E","N","T","E","R","T","A","I","N","M","E","N","T">>,
                 <<"N","e","t","f","l","i","x">>)

\* the `messages` dict of format_training_message, in insertion order
training_messages ==
    << << <<"N","O","_">>,
          <<"N","o"," ","B","e","n","e","f","i","t">> >>,
       << <<"M","I","N","O","R","_">>,
          <<"S","o","m","e"," ","B","e","n","e","f","i","t">> >>,
       << <<"R","E","C","O","V","E","R","Y","_">>,
          <<"R","e","c","o","v","e","r","y">> >>,
       << <<"M","A","I","N","T","A","I","N","I","N","G","_">>,
          <<"M","a","i","n","t","a","i","n","i","n","g">> >>,
       << <<"I","M","P","R","O","V","I","N","G","_">>,
          <<"I","m","p","a","c","t","i","n","g">> >>,
       << <<"I","M","P","A","C","T","I","N","G","_">>,
          <<"I","m","p","a","c","t","i","n","g">> >>,
       << <<"H","I","G","H","L","Y","_">>,
          <<"H","i","g","h","l","y"," ","I","m","p","a","c","t","i","n","g">> >>,
       << <<"O","V","E","R","R","E","A","C","H","I","N","G","_">>,
          <<"O","v","e","r","r","e","a","c","h","i","n","g">> >> >>

\* format_training_message(message): the first prefix of the table that matches
format_training_message(message) ==
    IF message = NoneStr \/ message = EmptyStr THEN S_Unknown
    ELSE IF \E i \in 1..Len(training_messages) :
                StartsWith(message, training_messages[i][1])
    THEN training_messages[
             CHOOSE i \in 1..Len(training_messages) :
                /\ StartsWith(message, training_messages[i][1])
                /\ \A j \in 1..(i - 1) :
                      ~StartsWith(message, training_messages[j][1])][2]
    ELSE message

\* format_training_effect(label)
format_training_effect(label) ==
    IF label = NoneStr \/ label = EmptyStr THEN S_Unknown
    ELSE Title(ReplaceUnderscore(label))

\* format_pace(average_speed), the speed in thousandths of m/s:
\* pace_min_km = 1000 / (speed * 60), minutes = int(pace),
\* seconds = int((pace - minutes) * 60)
format_pace(average_speed) ==
    IF average_speed # NoneNum /\ average_speed > 0
    THEN LET minutes == 1000000 \div (average_speed * 60)
             seconds == (1000000 \div average_speed) - 60 * minutes
         IN  Digits(minutes) \o <<":">> \o TwoDigits(seconds) \o <<" ","m","i","n","/","k","m">>
    ELSE EmptyStr

\* approx_equal(a, b, eps)
approx_equal(a, b, eps) ==
    IF a = NoneNum \/ b = NoneNum THEN a = b ELSE Abs(a - b) <= eps

-----------------------------------------------------------------------------
(* Time *)

\* timedelta(days=1), in milliseconds
DayMs == 86400000

\* timedelta(seconds=1), in milliseconds
SecondMs == 1000

\* local_tz = pytz.timezone('Europe/Brussels'): UTC+1 (winter time; daylight
\* saving is outside the model)
TzOffsetMs == 3600000

\* start_of_day = dt_local.replace(hour=0, minute=0, second=0, microsecond=0),
\* as an instant
start_of_local_day(t) == ((t + TzOffsetMs) \div DayMs) * DayMs - TzOffsetMs

\* garmin-activities.py get_local_date_range: (start_of_day, start_of_day + 1 day)
get_local_date_range_standalone(t) ==
    <<start_of_local_day(t), start_of_local_day(t) + DayMs>>

\* sync.py get_local_date_range: (start_of_day, start_of_day + 1 day - 1 second)
get_local_date_range_unified(t) ==
    <<start_of_local_day(t), start_of_local_day(t) + DayMs - SecondMs>>

\* convert_gmt_to_local: the same instant, written with the local offset
convert_gmt_to_local(t) == t

-----------------------------------------------------------------------------
(* Source records and stored pages *)

\* the keys of ACTIVITY_ICONS
ACTIVITY_ICONS ==
    { S_Barre,
      <<"B","r","e","a","t","h","w","o","r","k">>,
      <<"C","a","r","d","i","o">>,
      <<"C","y","c","l","i","n","g">>,
      <<"H","i","k","i","n","g">>,
      <<"I","n","d","o","o","r"," ","C","a","r","d","i","o">>,
      <<"I","n","d","o","o","r"," ","C","y","c","l","i","n","g">>,
      <<"I","n","d","o","o","r"," ","R","o","w","i","n","g">>,
      <<"P","i","l","a","t","e","s">>,
      S_Meditation,
      S_Rowing,
      <<"R","u","n","n","i","n","g">>,
      <<"S","t","r","e","n","g","t","h"," ","T","r","a","i","n","i","n","g">>,
      S_Stretching,
      <<"S","w","i","m","m","i","n","g">>,
      <<"T","r","e","a","d","m","i","l","l"," ","R","u","n","n","i","n","g">>,
      <<"W","a","l","k","i","n","g">>,
      <<"Y","o","g","a">> }

\* icon_url = ACTIVITY_ICONS.get(subtype if subtype != type else type):
\* the icon is named by its key, NoneStr when the table has none
icon_url(act_type, act_subtype) ==
    LET key == IF act_subtype # act_type THEN act_subtype ELSE act_type
    IN  IF key \in ACTIVITY_ICONS THEN key ELSE NoneStr

\* build_properties(act_type, act_subtype) of create_activity / update_activity
\* (the same dict in both scripts), without "Activity Name"; GarminID = NoneNum
\* stands for the key being left out (garmin_id is None)
build_properties(activity, act_type, act_subtype) ==
    [Date            |-> convert_gmt_to_local(activity.startTimeGMT),
     ActivityType    |-> act_type,
     SubactivityType |-> act_subtype,
     Distance        |-> RoundDiv2(activity.distance, 1000),
     Duration        |-> RoundDiv2(activity.duration, 60),
     Calories        |-> Round0(activity.calories),
     AvgPace         |-> format_pace(activity.averageSpeed),
     AvgPower        |-> Round1(activity.avgPower),
     MaxPower        |-> Round1(activity.maxPower),
     TrainingEffect  |-> format_training_effect(activity.trainingEffectLabel),
     Aerobic         |-> Round1(activity.aerobicTrainingEffect),
     AerobicEffect   |-> format_training_message(activity.aerobicTrainingEffectMessage),
     Anaerobic       |-> Round1(activity.anaerobicTrainingEffect),
     AnaerobicEffect |-> format_training_message(activity.anaerobicTrainingEffectMessage),
     PR              |-> activity.pr,
     Fav             |-> activity.favorite,
     GarminID        |-> activity.activityId]

\* the page that pages.create(parent, properties, icon) adds to the database
created_page(page_id, activity_name, props, icon) ==
    [id |-> page_id, icon |-> icon,
     props |-> [Date |-> props.Date, ActivityType |-> props.ActivityType,
                SubactivityType |-> props.SubactivityType,
                ActivityName |-> activity_name,
                Distance |-> props.Distance, Duration |-> props.Duration,
                Calories |-> props.Calories, AvgPace |-> props.AvgPace,
                AvgPower |-> props.AvgPower, MaxPower |-> props.MaxPower,
                TrainingEffect |-> props.TrainingEffect,
                Aerobic |-> props.Aerobic, AerobicEffect |-> props.AerobicEffect,
                Anaerobic |-> props.Anaerobic,
                AnaerobicEffect |-> props.AnaerobicEffect,
                PR |-> props.PR, Fav |-> props.Fav, GarminID |-> props.GarminID]]

\* the page after pages.update(page_id, properties, icon): the given properties
\* replace the stored ones, "Activity Name" is not among them, "Garmin ID" and
\* the icon are replaced only when given
updated_page(page, props, icon) ==
    [id |-> page.id,
     icon |-> IF icon # NoneStr THEN icon ELSE page.icon,
     props |-> [Date |-> props.Date, ActivityType |-> props.ActivityType,
                SubactivityType |-> props.SubactivityType,
                ActivityName |-> page.props.ActivityName,
                Distance |-> props.Distance, Duration |-> props.Duration,
                Calories |-> props.Calories, AvgPace |-> props.AvgPace,
                AvgPower |-> props.AvgPower, MaxPower |-> props.MaxPower,
                TrainingEffect |-> props.TrainingEffect,
                Aerobic |-> props.Aerobic, AerobicEffect |-> props.AerobicEffect,
                Anaerobic |-> props.Anaerobic,
                AnaerobicEffect |-> props.AnaerobicEffect,
                PR |-> props.PR, Fav |-> props.Fav,
                GarminID |-> IF props.GarminID # NoneNum THEN props.GarminID
                             ELSE page.props.GarminID]]

-----------------------------------------------------------------------------
(* Change Detector *)

\* safe_get_number(props, key, default)
safe_get_number(num, default) == IF num = NoneNum THEN default ELSE num

\* safe_get_select(props, key, default)
safe_get_select(sel, default) == IF sel = NoneStr THEN default ELSE sel

\* safe_get_rich_text(props, key, default)
safe_get_rich_text(text, default) ==
    IF text = NoneStr \/ text = EmptyStr THEN default ELSE text

\* safe_get_checkbox(props, key, default): a checkbox always has a value
safe_get_checkbox(box, default) == box

\* garmin-activities.py activity_needs_update(existing_activity, new_activity)
activity_needs_update_standalone(existing_activity, new_activity) ==
    LET props == existing_activity.props
        activity_name == Lower(new_activity.activityName)
        fmt == format_activity_type(new_activity.typeKey, activity_name)
        activity_type == fmt[1]
        activity_subtype == fmt[2]
        garmin_id_missing == safe_get_number(props.GarminID, NoneNum) = NoneNum
        new == build_properties(new_activity, activity_type, activity_subtype)
        needs_update ==
            \/ ~approx_equal(safe_get_number(props.Distance, 0), new.Distance, 10)
            \/ ~approx_equal(safe_get_number(props.Duration, 0), new.Duration, 10)
            \/ safe_get_number(props.Calories, 0) # new.Calories
            \/ safe_get_rich_text(props.AvgPace, EmptyStr) # new.AvgPace
            \/ ~approx_equal(safe_get_number(props.AvgPower, 0), new.AvgPower, 100)
            \/ ~approx_equal(safe_get_number(props.MaxPower, 0), new.MaxPower, 100)
            \/ safe_get_select(props.TrainingEffect, S_Unknown) # new.TrainingEffect
            \/ ~approx_equal(safe_get_number(props.Aerobic, 0), new.Aerobic, 100)
            \/ safe_get_select(props.AerobicEffect, S_Unknown) # new.AerobicEffect
            \/ ~approx_equal(safe_get_number(props.Anaerobic, 0), new.Anaerobic, 100)
            \/ safe_get_select(props.AnaerobicEffect, S_Unknown) # new.AnaerobicEffect
            \/ safe_get_checkbox(props.PR, FALSE) # new.PR
            \/ safe_get_checkbox(props.Fav, FALSE) # new.Fav
            \/ safe_get_select(props.ActivityType, EmptyStr) # activity_type
        existing_subtype == safe_get_select(props.SubactivityType, EmptyStr)
    IN  IF garmin_id_missing THEN TRUE
        ELSE IF existing_subtype # EmptyStr
        THEN needs_update \/ existing_subtype # activity_subtype
        ELSE IF activity_subtype # EmptyStr /\ activity_subtype # activity_type
        THEN TRUE
        ELSE needs_update

\* sync.py's comparison without its Garmin ID backfill check: C4 does not hold
\* of it
activity_needs_update_no_backfill(existing_activity, new_activity) ==
    LET props == existing_activity.props
        existing_distance == IF props.Distance = NoneNum THEN 0 ELSE props.Distance
        existing_duration == IF props.Duration = NoneNum THEN 0 ELSE props.Duration
    IN  \/ ~approx_equal(existing_distance,
                         RoundDiv2(new_activity.distance, 1000), 10)
        \/ ~approx_equal(existing_duration,
                         RoundDiv2(new_activity.duration, 60), 100)

\* sync.py activity_needs_update(existing_activity, new_activity)
activity_needs_update_unified(existing_activity, new_activity) ==
    LET props == existing_activity.props
        existing_garmin_id == props.GarminID
        new_garmin_id == new_activity.activityId
        existing_distance == IF props.Distance = NoneNum THEN 0 ELSE props.Distance
        new_distance == RoundDiv2(new_activity.distance, 1000)
        existing_duration == IF props.Duration = NoneNum THEN 0 ELSE props.Duration
        new_duration == RoundDiv2(new_activity.duration, 60)
    IN  IF existing_garmin_id = NoneNum /\ new_garmin_id # NoneNum THEN TRUE
        ELSE IF ~approx_equal(existing_distance, new_distance, 10) THEN TRUE
        ELSE IF ~approx_equal(existing_duration, new_duration, 100) THEN TRUE
        ELSE FALSE

\* activity_needs_update of the script that runs
activity_needs_update(s, existing_activity, new_activity) ==
    IF s = "standalone"
    THEN activity_needs_update_standalone(existing_activity, new_activity)
    ELSE activity_needs_update_unified(existing_activity, new_activity)

\* round(x) and x / 1000 raise TypeError when activity.get(key, 0) is None,
\* which is what get returns for a key present with a null value; the default
\* 0 is returned for an absent key only. format_pace tests its argument first
\* and returns '' for None.
null_arithmetic(activity, keys) == \E k \in keys : activity[k] = NoneNum

\* the property map that create_activity / update_activity build for the store
\* call: none in a dry run of garmin-activities.py (the function returns
\* before build_properties), kind "raise" for the TypeError that leaves the
\* function when a measurement is None (the map is built outside the try)
written_properties(s, dry, activity) ==
    IF s = "standalone" /\ dry THEN [kind |-> "dry"]
    ELSE IF null_arithmetic(activity, {"distance", "duration", "calories",
                                       "avgPower", "maxPower",
                                       "aerobicTrainingEffect",
                                       "anaerobicTrainingEffect"})
    THEN [kind |-> "raise"]
    ELSE LET activity_name == format_entertainment(activity.activityName)
             fmt == format_activity_type(activity.typeKey, activity_name)
         IN  [kind |-> "props",
              props |-> build_properties(activity, fmt[1], fmt[2])]

\* activity_needs_update on a document as the store returns it. The document
\* is doc.page, except that its property map is missing (~doc.has_properties)
\* or that its property doc.missing is not in the map (doc.how = "absent") or
\* is in the map with the value None (doc.how = "null"). Result: the boolean
\* returned, or kind "raise" for the exception that leaves the function:
\* KeyError of existing_activity['properties'] in garmin-activities.py,
\* AttributeError of props.get(key, {}).get('number') on None in sync.py,
\* TypeError of the arithmetic on a null measurement of the incoming record.
\* The safe_get_* readers return their default for both "absent" and "null";
\* for a checkbox that default is False.
document_needs_update(s, doc, new_activity) ==
    LET blank(f) == IF f \in {"PR", "Fav"} THEN FALSE
                    ELSE IF f \in {"ActivityType", "SubactivityType", "AvgPace",
                                   "TrainingEffect", "AerobicEffect",
                                   "AnaerobicEffect"} THEN NoneStr
                    ELSE NoneNum
        seen == IF doc.missing = "none" THEN doc.page
                ELSE [doc.page EXCEPT !.props[doc.missing] = blank(doc.missing)]
        empty == [doc.page EXCEPT !.props.GarminID = NoneNum,
                                  !.props.Distance = NoneNum,
                                  !.props.Duration = NoneNum]
        null(f) == doc.has_properties /\ doc.how = "null" /\ doc.missing = f
        backfill == seen.props.GarminID = NoneNum /\ new_activity.activityId # NoneNum
        distance_differs ==
            ~approx_equal(IF seen.props.Distance = NoneNum THEN 0
                          ELSE seen.props.Distance,
                          RoundDiv2(new_activity.distance, 1000), 10)
    IN  IF s = "standalone"
        THEN (IF ~doc.has_properties THEN [kind |-> "raise"]
              ELSE IF seen.props.GarminID = NoneNum
              THEN [kind |-> "bool", value |-> TRUE]
              ELSE IF null_arithmetic(new_activity,
                                      {"distance", "duration", "calories",
                                       "avgPower", "maxPower",
                                       "aerobicTrainingEffect",
                                       "anaerobicTrainingEffect"})
              THEN [kind |-> "raise"]
              ELSE [kind |-> "bool",
                    value |-> activity_needs_update_standalone(seen, new_activity)])
        ELSE IF ~doc.has_properties
        THEN (IF new_activity.activityId # NoneNum
              THEN [kind |-> "bool", value |-> TRUE]
              ELSE IF null_arithmetic(new_activity, {"distance"})
              THEN [kind |-> "raise"]
              ELSE IF ~approx_equal(0, RoundDiv2(new_activity.distance, 1000), 10)
              THEN [kind |-> "bool", value |-> TRUE]
              ELSE IF null_arithmetic(new_activity, {"duration"})
              THEN [kind |-> "raise"]
              ELSE [kind |-> "bool",
                    value |-> activity_needs_update_unified(empty, new_activity)])
        ELSE IF \/ null("GarminID")
                \/ ~backfill /\ null("Distance")
                \/ ~backfill /\ null_arithmetic(new_activity, {"distance"})
                \/ ~backfill /\ ~distance_differs /\ null("Duration")
                \/ ~backfill /\ ~distance_differs
                             /\ null_arithmetic(new_activity, {"duration"})
        THEN [kind |-> "raise"]
        ELSE [kind |-> "bool",
              value |-> activity_needs_update_unified(seen, new_activity)]

-----------------------------------------------------------------------------
(* Document Store Client: outcomes of a call *)

E_select == <<"I","n","v","a","l","i","d"," ","s","e","l","e","c","t"," ","o","p","t","i","o","n">>
E_validation == <<"v","a","l","i","d","a","t","i","o","n","_","e","r","r","o","r",":"," ","C","a","l","o","r","i","e","s"," ","s","h","o","u","l","d"," ","b","e"," ","a"," ","n","u","m","b","e","r">>
E_network == <<"C","o","n","n","e","c","t","i","o","n"," ","t","i","m","e","d"," ","o","u","t">>

\* str(e) of the exceptions the store client raises in the model: the rejection
\* of an unrecognised select option, a validation error on a number property,
\* a network failure
ErrorMessages == {E_select, E_validation, E_network}

\* the messages by which the store rejects an unrecognised categorical value
CategoryRejections == {E_select}

\* the outcome of one store call: NoneStr (it returns) or the message raised
Outcomes == {NoneStr} \cup ErrorMessages

\* number of raising outcomes in a sequence of outcomes
RECURSIVE Raised(_)
Raised(os) == IF os = <<>> THEN 0
              ELSE (IF Head(os) # NoneStr THEN 1 ELSE 0) + Raised(Tail(os))

\* one entry of the log of calls: for a query, n is the number of pages it
\* selects and page the page when there is one; for activity_needs_update,
\* n is 1 / 0 for its verdict
Call(op, page, props, icon, err, n) ==
    [op |-> op, page |-> page, props |-> props, icon |-> icon, err |-> err,
     n |-> n]

-----------------------------------------------------------------------------
(* Identity Resolver *)

NotFound == [kind |-> "none", page |-> 0]

UniqueMatch(page_id) == [kind |-> "page", page |-> page_id]

\* (MULTIPLE_MATCH, page_ids)
MULTIPLE_MATCH == [kind |-> "multiple", page |-> 0]

\* a resolver without the collision branch, which takes the first of several
\* pages: C2 does not hold of it
resolution_first(results) ==
    IF Cardinality(results) = 0 THEN NotFound
    ELSE UniqueMatch(CHOOSE i \in results : \A j \in results : i <= j)

\* len(results) == 0 / == 1 / else, of both lookups
resolution(results) ==
    IF Cardinality(results) = 0 THEN NotFound
    ELSE IF Cardinality(results) = 1
    THEN UniqueMatch(CHOOSE i \in results : TRUE)
    ELSE MULTIPLE_MATCH

\* the pages the filter {"Garmin ID": {"number": {"equals": int(garmin_id)}}} selects
query_garmin_id(db, garmin_id) ==
    {i \in 1..Len(db) : db[i].props.GarminID = garmin_id}

\* a lookup by id that never finds a page, so that the driver always falls
\* back: C12 does not hold of it
activity_exists_never(db, garmin_id) == NotFound

\* activity_exists_by_garmin_id, given that the query returns
activity_exists_by_garmin_id(db, garmin_id) ==
    IF garmin_id = NoneNum THEN NotFound
    ELSE resolution(query_garmin_id(db, garmin_id))

\* garmin-activities.py activity_exists_by_date_fallback: the category of the query
lookup_type_standalone(activity_type, activity_name) ==
    IF Contains(Lower(activity_name), K_stretch) THEN S_Stretching
    ELSE activity_type

\* garmin-activities.py: Date on_or_after start, Date before end, type, title
query_fallback_standalone(db, date_gmt, activity_type, activity_name) ==
    LET range == get_local_date_range_standalone(date_gmt)
    IN  {i \in 1..Len(db) :
            /\ db[i].props.Date # NoneNum
            /\ db[i].props.Date >= range[1]
            /\ db[i].props.Date < range[2]
            /\ db[i].props.ActivityType =
                   lookup_type_standalone(activity_type, activity_name)
            /\ db[i].props.ActivityName = activity_name}

\* sync.py: Date on_or_after start, Date on_or_before end, type, title
query_fallback_unified(db, date_gmt, activity_type, activity_name) ==
    LET range == get_local_date_range_unified(date_gmt)
    IN  {i \in 1..Len(db) :
            /\ db[i].props.Date # NoneNum
            /\ db[i].props.Date >= range[1]
            /\ db[i].props.Date <= range[2]
            /\ db[i].props.ActivityType = activity_type
            /\ db[i].props.ActivityName = activity_name}

\* activity_exists_by_date_fallback of the script that runs, given that the
\* query returns
activity_exists_by_date_fallback(s, db, date_gmt, activity_type, activity_name) ==
    resolution(IF s = "standalone"
               THEN query_fallback_standalone(db, date_gmt, activity_type, activity_name)
               ELSE query_fallback_unified(db, date_gmt, activity_type, activity_name))

-----------------------------------------------------------------------------
(* Upsert Executor *)

\* an except clause that never recognises a select error, so that no write is
\* retried: C3 does not hold of it
is_select_error_never(s, e) == FALSE

\* any(x in error_msg for x in [...]) on error_msg = str(e).lower():
\* garmin-activities.py also lists "validation_error"
is_select_error(s, e) ==
    \/ Contains(Lower(e), <<"s","e","l","e","c","t">>)
    \/ Contains(Lower(e), <<"i","s"," ","n","o","t"," ","a"," ","v","a","l","i","d">>)
    \/ Contains(Lower(e), <<"d","o","e","s"," ","n","o","t"," ","e","x","i","s","t">>)
    \/ /\ s = "standalone"
       /\ Contains(Lower(e),
                   <<"v","a","l","i","d","a","t","i","o","n","_","e","r","r","o","r">>)

\* the icon of the second pages.create: garmin-activities.py reuses `page`,
\* sync.py builds a new dict without "icon"
retry_create_icon(s, icon) == IF s = "standalone" THEN icon ELSE NoneStr

\* a create_activity without its `if DRY_RUN: return True`: C20 does not hold
\* of it
create_activity_writes(s, dry, activity, o1, o2) ==
    LET activity_name == format_entertainment(activity.activityName)
        fmt == format_activity_type(activity.typeKey, activity_name)
    IN  [calls |-> <<Call("pages.create", 0,
                          [name |-> activity_name,
                           p |-> build_properties(activity, fmt[1], fmt[2])],
                          icon_url(fmt[1], fmt[2]), o1, 0)>>,
         ok |-> (o1 = NoneStr)]

\* create_activity(client, database_id, activity): the calls to pages.create it
\* issues when the first raises o1 and the second o2 (NoneStr: returns), and
\* the value it returns
create_activity(s, dry, activity, o1, o2) ==
    LET garmin_id == activity.activityId
        activity_name == format_entertainment(activity.activityName)
        fmt == format_activity_type(activity.typeKey, activity_name)
        icon == icon_url(fmt[1], fmt[2])
        first == Call("pages.create", 0,
                      [name |-> activity_name,
                       p |-> build_properties(activity, fmt[1], fmt[2])],
                      icon, o1, 0)
        second == Call("pages.create", 0,
                       [name |-> activity_name,
                        p |-> build_properties(activity, S_Unknown, S_Unknown)],
                       retry_create_icon(s, icon), o2, 0)
    IN  IF dry THEN [calls |-> <<>>, ok |-> TRUE]
        ELSE IF o1 = NoneStr THEN [calls |-> <<first>>, ok |-> TRUE]
        ELSE IF is_select_error(s, o1)
        THEN [calls |-> <<first, second>>, ok |-> (o2 = NoneStr)]
        ELSE [calls |-> <<first>>, ok |-> FALSE]

\* whether update_activity retries: garmin-activities.py does (lines 533-544),
\* sync.py does not (lines 488-493)
update_retries(s, e) == s = "standalone" /\ is_select_error(s, e)

\* update_activity(client, existing_activity, new_activity)
update_activity(s, dry, page_id, new_activity, o1, o2) ==
    LET activity_name == format_entertainment(new_activity.activityName)
        fmt == format_activity_type(new_activity.typeKey, activity_name)
        icon == icon_url(fmt[1], fmt[2])
        first == Call("pages.update", page_id,
                      [name |-> activity_name,
                       p |-> build_properties(new_activity, fmt[1], fmt[2])],
                      icon, o1, 0)
        second == Call("pages.update", page_id,
                       [name |-> activity_name,
                        p |-> build_properties(new_activity, S_Unknown, S_Unknown)],
                       icon, o2, 0)
    IN  IF dry THEN [calls |-> <<>>, ok |-> TRUE]
        ELSE IF o1 = NoneStr THEN [calls |-> <<first>>, ok |-> TRUE]
        ELSE IF update_retries(s, o1)
        THEN [calls |-> <<first, second>>, ok |-> (o2 = NoneStr)]
        ELSE [calls |-> <<first>>, ok |-> FALSE]

\* a database that loses what is written to it: C19 does not hold of it
apply_calls_lost(db, cs) == db

\* the database after a sequence of write calls: a call that raised changed nothing
RECURSIVE apply_calls(_, _)
apply_calls(db, cs) ==
    IF cs = <<>> THEN db
    ELSE LET c == Head(cs)
             db1 == IF c.err # NoneStr THEN db
                    ELSE IF c.op = "pages.create"
                    THEN Append(db, created_page(Len(db) + 1, c.props.name,
                                                 c.props.p, c.icon))
                    ELSE [db EXCEPT ![c.page] = updated_page(@, c.props.p, c.icon)]
         IN  apply_calls(db1, Tail(cs))

-----------------------------------------------------------------------------
(* Inputs of the model: feed records and initial databases *)

TK_running == <<"r","u","n","n","i","n","g">>
TK_strength_training == <<"s","t","r","e","n","g","t","h","_","t","r","a","i","n","i","n","g">>
L_MorningRun == <<"M","o","r","n","i","n","g"," ","R","u","n">>
L_BarreStretch == <<"B","a","r","r","e"," ","S","t","r","e","t","c","h">>
L_TEMPO == <<"T","E","M","P","O">>
M_IMPROVING == <<"I","M","P","R","O","V","I","N","G","_","T","E","M","P","O","_","4">>
M_NO == <<"N","O","_","A","N","A","E","R","O","B","I","C","_","B","E","N","E","F","I","T","_","0">>

\* a 5 km, 30 min run at noon UTC of the second day of the epoch
ActA ==
    [activityId |-> 1, startTimeGMT |-> DayMs + 12 * 3600000,
     activityName |-> L_MorningRun, typeKey |-> TK_running,
     distance |-> 5000000, duration |-> 1800000, calories |-> 300000,
     averageSpeed |-> 2778, avgPower |-> 250000, maxPower |-> 400000,
     trainingEffectLabel |-> L_TEMPO,
     aerobicTrainingEffect |-> 3200,
     aerobicTrainingEffectMessage |-> M_IMPROVING,
     anaerobicTrainingEffect |-> 0,
     anaerobicTrainingEffectMessage |-> M_NO,
     pr |-> FALSE, favorite |-> FALSE]

\* the same activity after an edit at the source (5.02 km)
ActA2 == [ActA EXCEPT !.distance = 5020000]

\* the same activity as a feed without external ids reports it
ActB == [ActA EXCEPT !.activityId = NoneNum]

\* another activity, whose label holds two override words
ActC == [ActA EXCEPT !.activityId = 2, !.activityName = L_BarreStretch,
                     !.typeKey = TK_strength_training]

Feed == {ActA, ActA2, ActB, ActC}

\* the batches the fetch can return: sequences of at most MaxBatch feed
\* records. The feed is read in pages by offset, so a record can come twice
\* (an activity added between two pages shifts the offsets); two different
\* records never carry the same activityId
Batches ==
    {b \in UNION {[1..n -> Feed] : n \in 0..MaxBatch} :
        \A i, j \in 1..Len(b) :
            b[i] # b[j] =>
                (b[i].activityId = NoneNum \/ b[i].activityId # b[j].activityId)}

\* the page an earlier successful create_activity of the record left
PageOf(page_id, activity) ==
    LET activity_name == format_entertainment(activity.activityName)
        fmt == format_activity_type(activity.typeKey, activity_name)
    IN  created_page(page_id, activity_name,
                     build_properties(activity, fmt[1], fmt[2]),
                     icon_url(fmt[1], fmt[2]))

\* the databases a run can start from: empty; a page written before the
\* external id was tracked; a page in sync; two pages with one external id;
\* two pages without external id that the heuristic cannot tell apart; the
\* page of another activity of the same day, category and label (external
\* id 3)
InitialStores ==
    { <<>>,
      <<PageOf(1, ActB)>>,
      <<PageOf(1, ActA)>>,
      <<PageOf(1, [ActA EXCEPT !.activityId = 3])>>,
      <<PageOf(1, ActA), PageOf(2, ActA)>>,
      <<PageOf(1, ActB), PageOf(2, ActB)>> }

ZeroCounters ==
    [created |-> 0, updated |-> 0, unchanged |-> 0, skipped |-> 0, errors |-> 0]

-----------------------------------------------------------------------------
(* Reconciliation Driver: garmin-activities.py main(), sync.py sync_activities() *)

\* a driver that creates whatever the lookups returned: C6 does not hold of it
decide_always_create(res, needs_update) == "create"

\* the branch the driver takes once the lookups returned: `if existing:` /
\* `if activity_needs_update(...)` / `else`
decide(res, needs_update) ==
    IF res.kind = "page"
    THEN IF needs_update THEN "update" ELSE "unchanged"
    ELSE "create"

\* the failures the model lets a query raise: every exception leaves the
\* lookup the same way
QueryOutcomes == {NoneStr, E_network}

\* a tally that is not kept: C26 does not hold of it
Bump_lost(c, field) == c

\* created += 1, updated += 1, ...
Bump(c, field) == [c EXCEPT ![field] = @ + 1]

\* existing_activity = activity_exists_by_garmin_id(client, database_id, garmin_id)
\* and the collision check that follows it
LookupById ==
    /\ pc = "loop"
    /\ idx <= Len(activities)
    /\ cnt0' = cnt
    /\ LET garmin_id == activities[idx].activityId
           res == activity_exists_by_garmin_id(store, garmin_id)
       IN  IF garmin_id = NoneNum
           THEN /\ calls' = <<>>
                /\ existing' = NotFound
                /\ pc' = "fallback"
                /\ UNCHANGED <<cnt, idx, failed>>
           ELSE \E o \in QueryOutcomes :
                /\ failed + Raised(<<o>>) <= MaxFailed
                /\ failed' = failed + Raised(<<o>>)
                /\ calls' = <<Call("query_id", res.page, <<>>, NoneStr, o,
                                   Cardinality(query_garmin_id(store, garmin_id)))>>
                /\ IF o # NoneStr
                   THEN \* the exception leaves the loop and the function
                        /\ pc' = "crashed"
                        /\ existing' = NotFound
                        /\ UNCHANGED <<cnt, idx>>
                   ELSE /\ existing' = res
                        /\ IF res.kind = "multiple"
                           THEN /\ cnt' = Bump(cnt, "skipped")
                                /\ idx' = idx + 1
                                /\ pc' = "loop"
                           ELSE /\ pc' = IF res.kind = "page" THEN "decide"
                                         ELSE "fallback"
                                /\ UNCHANGED <<cnt, idx>>
    /\ UNCHANGED <<script, DRY_RUN, activities, store, store0, run, fn, daily, mainst>>

\* existing_activity = activity_exists_by_date_fallback(...) and its collision check
LookupByFallback ==
    /\ pc = "fallback"
    /\ LET a == activities[idx]
           activity_name == format_entertainment(a.activityName)
           activity_type == format_activity_type(a.typeKey, activity_name)[1]
           results == IF script = "standalone"
                      THEN query_fallback_standalone(store, a.startTimeGMT,
                                                     activity_type, activity_name)
                      ELSE query_fallback_unified(store, a.startTimeGMT,
                                                  activity_type, activity_name)
           res == activity_exists_by_date_fallback(script, store, a.startTimeGMT,
                                                   activity_type, activity_name)
       IN  \E o \in QueryOutcomes :
           /\ failed + Raised(<<o>>) <= MaxFailed
           /\ failed' = failed + Raised(<<o>>)
           /\ calls' = Append(calls, Call("query_fallback", res.page, <<>>,
                                          NoneStr, o, Cardinality(results)))
           /\ IF o # NoneStr
              THEN /\ pc' = "crashed"
                   /\ UNCHANGED <<existing, cnt, idx>>
              ELSE /\ existing' = res
                   /\ IF res.kind = "multiple"
                      THEN /\ cnt' = Bump(cnt, "skipped")
                           /\ idx' = idx + 1
                           /\ pc' = "loop"
                      ELSE /\ pc' = "decide"
                           /\ UNCHANGED <<cnt, idx>>
    /\ UNCHANGED <<script, DRY_RUN, activities, store, store0, cnt0, run, fn, daily, mainst>>

\* `if existing_activity: if activity_needs_update(...): ... else: unchanged += 1
\*  else: create`
Decide ==
    /\ pc = "decide"
    /\ LET a == activities[idx]
           needs == IF existing.kind = "page"
                    THEN activity_needs_update(script, store[existing.page], a)
                    ELSE FALSE
           branch == decide(existing, needs)
       IN  /\ calls' = IF existing.kind = "page"
                       THEN Append(calls, Call("activity_needs_update", existing.page,
                                               <<>>, NoneStr, NoneStr,
                                               IF needs THEN 1 ELSE 0))
                       ELSE calls
           /\ IF branch = "unchanged"
              THEN /\ cnt' = Bump(cnt, "unchanged")
                   /\ idx' = idx + 1
                   /\ pc' = "loop"
              ELSE /\ pc' = branch
                   /\ UNCHANGED <<cnt, idx>>
    /\ UNCHANGED <<script, DRY_RUN, activities, store, store0, existing, cnt0, run,
                   failed, fn, daily, mainst>>

\* success = create_activity(client, database_id, activity) and the tally
CreateActivity ==
    /\ pc = "create"
    /\ \E o1, o2 \in Outcomes :
       LET r == create_activity(script, DRY_RUN, activities[idx], o1, o2)
           raised == Cardinality({i \in 1..Len(r.calls) : r.calls[i].err # NoneStr})
       IN  /\ Len(r.calls) < 2 => o2 = NoneStr
           /\ Len(r.calls) < 1 => o1 = NoneStr
           /\ failed + raised <= MaxFailed
           /\ failed' = failed + raised
           /\ calls' = Append(calls, Call("create_activity", 0, <<>>, NoneStr,
                                          NoneStr, 0)) \o r.calls
           /\ store' = apply_calls(store, r.calls)
           /\ cnt' = IF r.ok THEN Bump(cnt, "created") ELSE Bump(cnt, "errors")
    /\ idx' = idx + 1
    /\ pc' = "loop"
    /\ UNCHANGED <<script, DRY_RUN, activities, store0, existing, cnt0,
                   run, fn, daily,
                   mainst>>

\* success = update_activity(client, existing_activity, activity) and the tally
UpdateActivity ==
    /\ pc = "update"
    /\ \E o1, o2 \in Outcomes :
       LET r == update_activity(script, DRY_RUN, existing.page, activities[idx],
                                o1, o2)
           raised == Cardinality({i \in 1..Len(r.calls) : r.calls[i].err # NoneStr})
       IN  /\ Len(r.calls) < 2 => o2 = NoneStr
           /\ Len(r.calls) < 1 => o1 = NoneStr
           /\ failed + raised <= MaxFailed
           /\ failed' = failed + raised
           /\ calls' = Append(calls, Call("update_activity", existing.page, <<>>,
                                          NoneStr, NoneStr, 0)) \o r.calls
           /\ store' = apply_calls(store, r.calls)
           /\ cnt' = IF r.ok THEN Bump(cnt, "updated") ELSE Bump(cnt, "errors")
    /\ idx' = idx + 1
    /\ pc' = "loop"
    /\ UNCHANGED <<script, DRY_RUN, activities, store0, existing, cnt0,
                   run, fn, daily,
                   mainst>>

\* the loop is over: the summary is printed
Report ==
    /\ pc = "loop"
    /\ idx > Len(activities)
    /\ pc' = "done"
    /\ UNCHANGED <<script, DRY_RUN, activities, store, store0, idx, existing, cnt, cnt0,
                   calls, run, failed, fn, daily, mainst>>

\* the script is run again on the same source and the database it left
Rerun ==
    /\ pc = "done"
    /\ run = 1
    /\ run' = 2
    /\ idx' = 1
    /\ pc' = "loop"
    /\ cnt' = ZeroCounters
    /\ cnt0' = ZeroCounters
    /\ calls' = <<>>
    /\ existing' = NotFound
    /\ store0' = store
    /\ UNCHANGED <<script, DRY_RUN, activities, store, failed, fn, daily, mainst>>

Idle == <<"idle">>

Init ==
    /\ script \in {"standalone", "unified"}
    /\ DRY_RUN \in (IF script = "standalone" THEN BOOLEAN ELSE {FALSE})
    /\ activities \in Batches
    /\ store \in InitialStores
    /\ store0 = store
    /\ idx = 1
    /\ pc = "loop"
    /\ existing = NotFound
    /\ cnt = ZeroCounters
    /\ cnt0 = ZeroCounters
    /\ calls = <<>>
    /\ run = 1
    /\ failed = 0
    /\ fn = Idle
    /\ daily = Idle
    /\ mainst = Idle

Next ==
    \/ LookupById
    \/ LookupByFallback
    \/ Decide
    \/ CreateActivity
    \/ UpdateActivity
    \/ Report
    \/ Rerun

Spec == Init /\ [][Next]_vars

-----------------------------------------------------------------------------
(* Properties of the driver *)

QueryOps == {"query_id", "query_fallback"}

WriteOps == {"pages.create", "pages.update"}

AttemptOps == {"create_activity", "update_activity"}

\* the entries of the log of the current record whose op is in ops
CallsOf(ops) == SelectSeq(calls, LAMBDA c : c.op \in ops)

\* the current record is fully processed: `calls` is its complete log
Finished == pc \in {"loop", "done"} /\ calls # <<>>

\* C1 (as claimed): when the run is repeated on the unchanged source and no
\* store call has failed in either run, the second run issues no create call
\* and no update call
C1_SecondRunWritesNothing ==
    (run = 2 /\ failed = 0) => CallsOf(WriteOps) = <<>>

\* C2: when a lookup of the current record returns more than one page, the
\* record is left at once: no create or update is attempted or issued, the
\* skipped counter is one higher than when the record was taken up and every
\* other counter is as it was
AmbiguousLookup ==
    \E i \in 1..Len(calls) :
        calls[i].op \in QueryOps /\ calls[i].err = NoneStr /\ calls[i].n > 1

C2_AmbiguityNeverWrites ==
    AmbiguousLookup =>
        /\ CallsOf(WriteOps \cup AttemptOps) = <<>>
        /\ cnt = Bump(cnt0, "skipped")
        /\ pc \in {"loop", "done"}

\* C2 witness: the heuristic lookup of a record returned two pages and the
\* record was skipped
C2_Witness ==
    /\ \E i \in 1..Len(calls) :
          calls[i].op = "query_fallback" /\ calls[i].err = NoneStr /\ calls[i].n > 1
    /\ cnt.skipped = 1

\* C3: a record never costs more than two create calls; when the first is
\* rejected for an unrecognised category there is exactly one more, with
\* category and subcategory "Unknown", the same title and every other property
\* as in the first; the record then counts as created if the second returns
\* and as one error if it raises
C3_DegradedCreateRetry ==
    Finished =>
        LET cs == CallsOf({"pages.create"})
        IN  /\ Len(cs) <= 2
            /\ (Len(cs) >= 1 /\ cs[1].err \in CategoryRejections) =>
                  /\ Len(cs) = 2
                  /\ cs[2].props.name = cs[1].props.name
                  /\ cs[2].props.p = [cs[1].props.p EXCEPT
                                         !.ActivityType = S_Unknown,
                                         !.SubactivityType = S_Unknown]
                  /\ cs[2].err # NoneStr => cnt = Bump(cnt0, "errors")
                  /\ cs[2].err = NoneStr => cnt = Bump(cnt0, "created")

\* C3 witness: a create was rejected for its category, retried, and the retry
\* failed too
C3_Witness ==
    /\ Finished
    /\ Len(CallsOf({"pages.create"})) = 2
    /\ CallsOf({"pages.create"})[1].err \in CategoryRejections
    /\ CallsOf({"pages.create"})[2].err # NoneStr
    /\ cnt.errors = cnt0.errors + 1

\* C6: when every lookup of the record found nothing, create_activity is
\* called once and update_activity is not; when a lookup found one page and
\* activity_needs_update reported a change, update_activity is called once, on
\* that page, and create_activity is not; when it reported none, nothing is
\* written and the record counts as unchanged
C6_DecisionRule ==
    Finished =>
        LET qs == CallsOf(QueryOps)
            verdicts == CallsOf({"activity_needs_update"})
            found == qs # <<>> /\ qs[Len(qs)].n = 1
            nothing == \A i \in 1..Len(qs) : qs[i].n = 0
        IN  /\ nothing =>
                  /\ Len(CallsOf({"create_activity"})) = 1
                  /\ CallsOf({"update_activity"}) = <<>>
                  /\ CallsOf({"pages.update"}) = <<>>
            /\ (found /\ verdicts # <<>> /\ verdicts[1].n = 1) =>
                  /\ Len(CallsOf({"update_activity"})) = 1
                  /\ CallsOf({"update_activity"})[1].page = qs[Len(qs)].page
                  /\ \A i \in 1..Len(calls) :
                        calls[i].op = "pages.update" =>
                            calls[i].page = qs[Len(qs)].page
                  /\ CallsOf({"create_activity", "pages.create"}) = <<>>
            /\ (found /\ verdicts # <<>> /\ verdicts[1].n = 0) =>
                  /\ CallsOf(WriteOps \cup AttemptOps) = <<>>
                  /\ cnt = Bump(cnt0, "unchanged")
            /\ found => Len(verdicts) = 1

\* C6 witness: a record matched one page by the heuristic lookup, needed an
\* update and was updated
C6_Witness ==
    /\ Finished
    /\ \E i \in 1..Len(calls) : calls[i].op = "query_fallback" /\ calls[i].n = 1
    /\ Len(CallsOf({"update_activity"})) = 1
    /\ cnt.updated = cnt0.updated + 1

\* C7 (as claimed): a store call that fails ends the record with one more
\* error, and the run goes on to the next record and to its report
C7_BestEffortBatch ==
    (\E i \in 1..Len(calls) : calls[i].op \in QueryOps /\ calls[i].err # NoneStr)
        => /\ pc \in {"loop", "done"}
           /\ cnt = Bump(cnt0, "errors")

\* C10 (as claimed): when the first write call of a record fails with anything
\* but the rejection of an unrecognised categorical value, it is the only
\* write call of the record and the record counts as one error
C10_NoRetryOfOtherFailures ==
    Finished =>
        LET ws == CallsOf(WriteOps)
        IN  (ws # <<>> /\ ws[1].err # NoneStr /\ ws[1].err \notin CategoryRejections)
                => /\ Len(ws) = 1
                   /\ cnt = Bump(cnt0, "errors")

-----------------------------------------------------------------------------
(* activity_needs_update, called on its own *)

\* the values the variables of the driver have while it does not run
DriverIdle ==
    /\ script = "unified"
    /\ DRY_RUN = FALSE
    /\ activities = <<>>
    /\ store = <<>>
    /\ store0 = <<>>
    /\ idx = 1
    /\ pc = "idle"
    /\ existing = NotFound
    /\ cnt = ZeroCounters
    /\ cnt0 = ZeroCounters
    /\ calls = <<>>
    /\ run = 1
    /\ failed = 0

\* the numeric properties the comparison of garmin-activities.py reads with a
\* tolerance
NumericFields ==
    {"Distance", "Duration", "AvgPower", "MaxPower", "Aerobic", "Anaerobic"}

\* differences between the stored and the incoming value, in thousandths:
\* none, and below, at and above a hundredth and a tenth, in both directions
Deltas == {0, 9, 10, 11, 50, 99, 100, 101, 0 - 10, 0 - 11, 0 - 100, 0 - 101}

\* the properties create_activity writes for the record
incoming_properties(activity) ==
    LET fmt == format_activity_type(activity.typeKey,
                                    format_entertainment(activity.activityName))
    IN  build_properties(activity, fmt[1], fmt[2])

\* the page of the record with one numeric property moved by delta and the
\* Garmin ID property set to garmin_id (NoneNum: the property is missing or
\* holds null, which both read as None)
stored_page(activity, field, delta, garmin_id) ==
    LET page == PageOf(1, activity)
    IN  [page EXCEPT !.props = [@ EXCEPT ![field] = @ + delta,
                                         !.GarminID = garmin_id]]

FnRecords == {ActA, ActB, ActC}

\* the arguments of one call: a stored page, made from any record, and an
\* incoming record
InitFn ==
    /\ DriverIdle
    /\ daily = Idle
    /\ mainst = Idle
    /\ \E s \in {"standalone", "unified"}, of \in FnRecords, a \in FnRecords,
          f \in NumericFields, d \in Deltas, garmin_id \in {NoneNum, 1, 2} :
          /\ incoming_properties(of)[f] # NoneNum
          /\ incoming_properties(of)[f] + d >= 0
          /\ fn = [st |-> "call",
                   s |-> s,
                   field |-> f,
                   existing_activity |-> stored_page(of, f, d, garmin_id),
                   new_activity |-> a,
                   result |-> FALSE]

\* needs_update = activity_needs_update(existing_activity, new_activity)
NeedsUpdate ==
    /\ fn.st = "call"
    /\ fn' = [fn EXCEPT !.st = "returned",
                        !.result = activity_needs_update(fn.s, fn.existing_activity,
                                                         fn.new_activity)]
    /\ UNCHANGED <<drvVars, daily, mainst>>

SpecFn == InitFn /\ [][NeedsUpdate]_vars

OthersEqual(page, activity, field) ==
    LET new == incoming_properties(activity)
    IN  \A g \in (DOMAIN new) \ {field, "GarminID"} : page.props[g] = new[g]

Tolerance(field) == IF field \in {"Distance", "Duration"} THEN 10 ELSE 100

\* C5 (as claimed): with the Garmin ID on both sides and every other property
\* equal, activity_needs_update returns False when the stored and the incoming
\* value of a numeric property differ by at most its tolerance (0.01 for
\* distance and duration, 0.1 for the powers and the two scores) and True when
\* they differ by more
C5_ToleranceAwareComparison ==
    (/\ fn.st = "returned"
     /\ fn.existing_activity.props.GarminID # NoneNum
     /\ fn.new_activity.activityId # NoneNum
     /\ OthersEqual(fn.existing_activity, fn.new_activity, fn.field))
        => LET stored == fn.existing_activity.props[fn.field]
               new == incoming_properties(fn.new_activity)[fn.field]
           IN  fn.result = (Abs(stored - new) > Tolerance(fn.field))

-----------------------------------------------------------------------------
(* Daily steps and sleep: sync.py sync_daily_steps(), sync_sleep_data(),
   daily-steps.py main(), sleep-data.py main() *)

\* the largest number of days a run looks back in the model
MaxDays == 3

K_404 == <<"4","0","4">>
K_No_data == <<"N","o"," ","d","a","t","a">>

\* str(e) of the failures of the feed: no data on the server for the date
\* (HTTP 404), and the client's own message for an empty answer
E_not_found == <<"4","0","4"," ","C","l","i","e","n","t"," ","E","r","r","o","r",":"," ","N","o","t"," ","F","o","u","n","d">>
E_no_data == <<"N","o"," ","d","a","t","a"," ","f","o","r"," ","d","a","t","e">>

DailyImpls == {"sync_daily_steps", "sync_sleep_data", "daily-steps.py", "sleep-data.py"}

\* what the feed does for one date: it raises, or it returns None (NoneNum), or
\* the day's total (totalSteps; deep + light + rem seconds), which may be 0
FeedFailures == {E_not_found, E_no_data, E_network}

FeedValues == {NoneNum, 0, 8000}

\* the condition of `if "404" not in str(e)` (sync.py) and of
\* `if "404" not in str(e) and "No data" not in str(e)` (the two scripts)
prints_error(impl, e) ==
    IF impl \in {"sync_daily_steps", "sync_sleep_data"}
    THEN ~Contains(e, K_404)
    ELSE ~Contains(e, K_404) /\ ~Contains(e, K_No_data)

daily_steps_exist_never(pages, steps_date) == FALSE

\* `len(query["results"]) > 0` of the query for the date (daily_steps_exist,
\* sleep_exists; `if query["results"]` in sync.py)
daily_steps_exist(pages, steps_date) == steps_date \in pages

\* `except Exception as e:` of the loop
daily_except(d, e) ==
    [d EXCEPT !.errors = @ + 1,
              !.printed = IF prints_error(d.impl, e) THEN @ + 1 ELSE @]

InitDaily ==
    /\ DriverIdle
    /\ fn = Idle
    /\ mainst = Idle
    /\ \E impl \in DailyImpls, database_id \in BOOLEAN, days \in 1..MaxDays :
       \E pages \in SUBSET (0..(days - 1)) :
          daily = [st |-> "start", impl |-> impl, database_id |-> database_id,
                   days |-> days, i |-> 0, pages |-> pages,
                   created |-> 0, skipped |-> 0, errors |-> 0, printed |-> 0,
                   run |-> 1, pages0 |-> pages,
                   last |-> [date |-> NoneNum, feed |-> NoneStr,
                             skipped |-> 0, errors |-> 0, had |-> FALSE,
                             query |-> NoneStr, feed_calls |-> 0,
                             total |-> NoneNum, create_calls |-> 0]]

\* `if not database_id: return`
DailyStart ==
    /\ daily.st = "start"
    /\ daily' = [daily EXCEPT !.st = IF daily.database_id THEN "loop" ELSE "done"]
    /\ UNCHANGED <<drvVars, fn, mainst>>

\* one pass of `for i in range(days_to_fetch)`: the query for the date, the
\* feed, the create, and the except clause around the three. daily.last
\* keeps, for the date: whether the database held its document, the outcome
\* of the query, the calls of the feed and of pages.create that were made and
\* the total the feed returned
DailyDate ==
    /\ daily.st = "loop"
    /\ daily.i < daily.days
    /\ \E q \in QueryOutcomes, g \in FeedFailures \cup {NoneStr},
          v \in FeedValues, w \in {NoneStr, E_network} :
       LET d == [daily EXCEPT !.i = @ + 1,
                              !.last = [date |-> daily.i, feed |-> NoneStr,
                                        skipped |-> daily.skipped,
                                        errors |-> daily.errors,
                                        had |-> daily.i \in daily.pages,
                                        query |-> q, feed_calls |-> 0,
                                        total |-> NoneNum, create_calls |-> 0]]
           asked == [d EXCEPT !.last.feed_calls = 1]
           told == [asked EXCEPT !.last.total = v]
           wrote == [told EXCEPT !.last.create_calls = 1]
       IN  daily' =
             IF q # NoneStr THEN daily_except(d, q)
             ELSE IF daily_steps_exist(daily.pages, daily.i)
                  THEN [d EXCEPT !.skipped = @ + 1]
             ELSE IF g # NoneStr
                  THEN daily_except([asked EXCEPT !.last.feed = g], g)
             ELSE IF v # NoneNum /\ v > 0
                  THEN IF w # NoneStr THEN daily_except(wrote, w)
                       ELSE [wrote EXCEPT !.created = @ + 1,
                                          !.pages = @ \cup {daily.i}]
             ELSE [told EXCEPT !.skipped = @ + 1]
    /\ UNCHANGED <<drvVars, fn, mainst>>

\* the loop is over: the counts are printed
DailyReport ==
    /\ daily.st = "loop"
    /\ daily.i = daily.days
    /\ daily' = [daily EXCEPT !.st = "done"]
    /\ UNCHANGED <<drvVars, fn, mainst>>

\* the sync is run again over the same dates, on the database it left
DailyRerun ==
    /\ daily.st = "done"
    /\ daily.database_id
    /\ daily.run = 1
    /\ daily' = [daily EXCEPT
                    !.st = "loop", !.run = 2, !.i = 0, !.pages0 = daily.pages,
                    !.created = 0, !.skipped = 0, !.errors = 0, !.printed = 0,
                    !.last = [date |-> NoneNum, feed |-> NoneStr,
                              skipped |-> 0, errors |-> 0, had |-> FALSE,
                              query |-> NoneStr, feed_calls |-> 0,
                              total |-> NoneNum, create_calls |-> 0]]
    /\ UNCHANGED <<drvVars, fn, mainst>>

NextDaily == DailyStart \/ DailyDate \/ DailyReport \/ DailyRerun

SpecDaily == InitDaily /\ [][NextDaily]_vars

\* C8 (as claimed): after a date for which the feed failed with not found,
\* skipped is one higher and errors is as before; after a date for which the
\* feed failed otherwise, errors is one higher; either way the loop is at the
\* next date
C8_NotFoundIsNoData ==
    (daily.st \in {"loop", "done"} /\ daily.last.feed # NoneStr) =>
        /\ daily.i = daily.last.date + 1
        /\ IF Contains(daily.last.feed, K_404)
           THEN /\ daily.skipped = daily.last.skipped + 1
                /\ daily.errors = daily.last.errors
           ELSE daily.errors = daily.last.errors + 1

-----------------------------------------------------------------------------
(* Unified run: sync.py main() *)

\* the largest error count one sync returns in the model
MaxSyncErrors == 2

RECURSIVE Sum(_)
Sum(ns) == IF ns = <<>> THEN 0 ELSE ns[1] + Sum(Tail(ns))

FourSyncs == <<"sync_activities", "sync_personal_records", "sync_daily_steps",
               "sync_sleep_data">>

\* the syncs an exception can leave: sync_activities fetches and queries, and
\* sync_personal_records fetches and queries, outside any try; the loops of
\* sync_daily_steps and sync_sleep_data catch every Exception
MayRaise == {"sync_activities", "sync_personal_records"}

InitMain ==
    /\ DriverIdle
    /\ fn = Idle
    /\ daily = Idle
    /\ \E activities_db, pr_db, steps_db, sleep_db \in BOOLEAN :
          mainst = [st |-> "init", clients |-> FALSE,
                    db |-> [sync_activities |-> activities_db,
                            sync_personal_records |-> pr_db,
                            sync_daily_steps |-> steps_db,
                            sync_sleep_data |-> sleep_db],
                    ran |-> <<>>, returned |-> <<>>,
                    total_created |-> 0, total_errors |-> 0,
                    exit_code |-> NoneNum, uncaught |-> FALSE]

\* sys.exit(code)
main_exit(m, code) == [m EXCEPT !.st = "exited", !.exit_code = code]

\* init_garmin_client(), the NOTION_TOKEN check, Client(auth=...) and the
\* NOTION_DB_ID check
MainInitClients ==
    /\ mainst.st = "init"
    /\ \E login_ok, notion_token \in BOOLEAN :
          mainst' = IF ~login_ok \/ ~notion_token THEN main_exit(mainst, 1)
                    ELSE IF ~mainst.db.sync_activities
                    THEN main_exit([mainst EXCEPT !.clients = TRUE], 1)
                    ELSE [mainst EXCEPT !.clients = TRUE, !.st = "syncs"]
    /\ UNCHANGED <<drvVars, fn, daily>>

\* `c, u, e = sync_...(...)`, `total_created += c`, `total_errors += e` for
\* the next of the four syncs; a sync without its database returns 0, 0, 0
\* (sync_activities always has one); an exception a sync does not catch ends
\* the process with a traceback and exit code 1
MainSync ==
    /\ mainst.st = "syncs"
    /\ Len(mainst.ran) < Len(FourSyncs)
    /\ LET sync == FourSyncs[Len(mainst.ran) + 1]
           m == [mainst EXCEPT !.ran = Append(@, sync)]
       IN  \E c \in 0..1, e \in 0..MaxSyncErrors, raises \in BOOLEAN :
           /\ raises => sync \in MayRaise /\ mainst.db[sync]
           /\ ~mainst.db[sync] => c = 0 /\ e = 0
           /\ mainst' =
                IF raises
                THEN [main_exit(m, 1) EXCEPT !.uncaught = TRUE]
                ELSE [m EXCEPT !.returned = Append(@, e),
                               !.total_created = @ + c,
                               !.total_errors = @ + e]
    /\ UNCHANGED <<drvVars, fn, daily>>

\* the final summary and `if total_errors > 0: sys.exit(1)`
MainSummary ==
    /\ mainst.st = "syncs"
    /\ Len(mainst.ran) = Len(FourSyncs)
    /\ mainst' = main_exit(mainst, IF mainst.total_errors > 0 THEN 1 ELSE 0)
    /\ UNCHANGED <<drvVars, fn, daily>>

NextMain == MainInitClients \/ MainSync \/ MainSummary

SpecMain == InitMain /\ [][NextMain]_vars

\* C9 (as claimed): a run whose two clients were initialised and whose
\* activities database is configured has, when the process ends, run the four
\* syncs in the order activities, personal records, daily steps, sleep, and
\* its exit code is non-zero exactly when the error counts the syncs returned
\* add up to more than zero
C9_FourSyncsThenExitCode ==
    (/\ mainst.st = "exited"
     /\ mainst.clients
     /\ mainst.db.sync_activities)
        => /\ mainst.ran = FourSyncs
           /\ (mainst.exit_code # 0) <=> (Sum(mainst.returned) > 0)

-----------------------------------------------------------------------------
(* Properties of the driver: retry on update, order of the lookups *)

\* C11 (as claimed): when the first update call of a record is rejected for an
\* unrecognised category, there is exactly one more update call, on the same
\* page, with category and subcategory "Unknown" and every other property as
\* in the first; the record counts as one error if the second raises, and
\* there is no third call
C11_DegradedUpdateRetry ==
    Finished =>
        LET us == CallsOf({"pages.update"})
        IN  (Len(us) >= 1 /\ us[1].err \in CategoryRejections) =>
                /\ Len(us) = 2
                /\ us[2].page = us[1].page
                /\ us[2].props.p = [us[1].props.p EXCEPT
                                       !.ActivityType = S_Unknown,
                                       !.SubactivityType = S_Unknown]
                /\ us[2].err # NoneStr => cnt = Bump(cnt0, "errors")

\* the record the log `calls` belongs to
CurrentRecord ==
    IF pc \in {"loop", "done"} THEN activities[idx - 1] ELSE activities[idx]

\* what the two lookups of the record return on the database as it is now
FreshLookup(a) ==
    LET activity_name == format_entertainment(a.activityName)
        activity_type == format_activity_type(a.typeKey, activity_name)[1]
        by_id == activity_exists_by_garmin_id(store, a.activityId)
    IN  IF by_id.kind # "none" THEN by_id
        ELSE activity_exists_by_date_fallback(script, store, a.startTimeGMT,
                                              activity_type, activity_name)

-----------------------------------------------------------------------------
(* Timestamps as text: parse_utc_datetime, get_local_date_range *)

\* s[a - 1:b] of Python: the characters a..b that s has
Slice(s, a, b) ==
    IF a > b \/ a > Len(s) THEN <<>>
    ELSE SubSeq(s, a, IF b > Len(s) THEN Len(s) ELSE b)

\* s[i - 1] of Python, "" past the end
At(s, i) == IF i \in 1..Len(s) THEN s[i] ELSE ""

\* int(c) of one decimal digit, NoneNum when c is none
DigitValue(c) ==
    IF \E i \in 1..10 : DigitChars[i] = c
    THEN (CHOOSE i \in 1..10 : DigitChars[i] = c) - 1
    ELSE NoneNum

\* int(s) of a string of decimal digits, NoneNum (ValueError) otherwise
RECURSIVE IntOf(_)
IntOf(s) ==
    IF s = <<>> \/ \E i \in 1..Len(s) : DigitValue(s[i]) = NoneNum THEN NoneNum
    ELSE IF Len(s) = 1 THEN DigitValue(s[1])
    ELSE 10 * IntOf(Slice(s, 1, Len(s) - 1)) + DigitValue(s[Len(s)])

\* str.strip(), of blanks
Strip(s) ==
    LET inner == {i \in 1..Len(s) : s[i] # " "}
    IN  IF inner = {} THEN <<>>
        ELSE SubSeq(s, CHOOSE i \in inner : \A j \in inner : i <= j,
                    CHOOSE i \in inner : \A j \in inner : i >= j)

\* what a call of the datetime library gives: a datetime or ValueError
ValueError == [kind |-> "ValueError"]

\* the number of days of month mo of year y
DaysInMonth(y, mo) ==
    IF mo = 2
    THEN (IF y % 4 = 0 /\ (y % 100 # 0 \/ y % 400 = 0) THEN 29 ELSE 28)
    ELSE IF mo \in {4, 6, 9, 11} THEN 30 ELSE 31

\* datetime(y, mo, d, h, mi, sec, tzinfo): ValueError when a field is out of
\* range; offset is the UTC offset in seconds of an aware datetime
datetime(y, mo, d, h, mi, sec, aware, offset) ==
    IF /\ y \in 1..9999 /\ mo \in 1..12
       /\ d >= 1 /\ d <= DaysInMonth(y, mo)
       /\ h \in 0..23 /\ mi \in 0..59 /\ sec \in 0..59
       /\ Abs(offset) < 86400
    THEN [kind |-> "datetime", y |-> y, mo |-> mo, d |-> d, h |-> h, mi |-> mi,
          sec |-> sec, aware |-> aware, offset |-> offset]
    ELSE ValueError

\* the hh[:mm[:ss]] of datetime.fromisoformat: <<h, mi, sec>>, or <<>> when
\* malformed (the caller has cut every fraction of a second before)
parse_hh_mm_ss(t) ==
    LET hh == IntOf(Slice(t, 1, 2))
        mm == IntOf(Slice(t, 4, 5))
        ss == IntOf(Slice(t, 7, 8))
    IN  IF Len(t) = 2 /\ hh # NoneNum THEN <<hh, 0, 0>>
        ELSE IF Len(t) = 5 /\ t[3] = ":" /\ hh # NoneNum /\ mm # NoneNum
        THEN <<hh, mm, 0>>
        ELSE IF /\ Len(t) = 8 /\ t[3] = ":" /\ t[6] = ":"
                /\ hh # NoneNum /\ mm # NoneNum /\ ss # NoneNum
        THEN <<hh, mm, ss>>
        ELSE <<>>

\* datetime.fromisoformat(s) as Lib/datetime.py of Python 3.7 to 3.10 defines
\* it: YYYY-MM-DD, then any one character and hh[:mm[:ss]], then [+-]hh:mm[:ss]
fromisoformat(s) ==
    LET y == IntOf(Slice(s, 1, 4))
        mo == IntOf(Slice(s, 6, 7))
        d == IntOf(Slice(s, 9, 10))
        tstr == Slice(s, 12, Len(s))
        tz_pos == IF Find(tstr, <<"-">>) # 0 THEN Find(tstr, <<"-">>)
                  ELSE IF Find(tstr, <<"+">>) # 0 THEN Find(tstr, <<"+">>)
                  ELSE Len(tstr) + 1
        time == IF tstr = <<>> THEN <<0, 0, 0>>
                ELSE parse_hh_mm_ss(Slice(tstr, 1, tz_pos - 1))
        tzstr == Slice(tstr, tz_pos, Len(tstr))
        tz == IF tzstr = <<>> THEN <<0, 0, 0>>
              ELSE parse_hh_mm_ss(Tail(tzstr))
        sign == IF At(tzstr, 1) = "-" THEN 0 - 1 ELSE 1
    IN  IF \/ Len(s) < 10 \/ s[5] # "-" \/ s[8] # "-"
           \/ y = NoneNum \/ mo = NoneNum \/ d = NoneNum
           \/ time = <<>> \/ tz = <<>>
           \/ (tzstr # <<>> /\ Len(tzstr) \notin {6, 9})
        THEN ValueError
        ELSE datetime(y, mo, d, time[1], time[2], time[3], tzstr # <<>>,
                      sign * (tz[1] * 3600 + tz[2] * 60 + tz[3]))

\* one numeric directive of datetime.strptime at position i of s: the regular
\* expression takes two digits when they form a value of lo..hi, one digit
\* when no digit follows; <<value, next position>>, <<NoneNum, 0>> on no match
directive(s, i, lo, hi) ==
    LET a == DigitValue(At(s, i))
        b == DigitValue(At(s, i + 1))
    IN  IF a = NoneNum THEN <<NoneNum, 0>>
        ELSE IF b # NoneNum
        THEN (IF 10 * a + b >= lo /\ 10 * a + b <= hi
              THEN <<10 * a + b, i + 2>> ELSE <<NoneNum, 0>>)
        ELSE (IF a >= lo THEN <<a, i + 1>> ELSE <<NoneNum, 0>>)

\* datetime.strptime(s, '%Y-%m-%dT%H:%M:%S')
strptime(s) ==
    LET y == IntOf(Slice(s, 1, 4))
        mo == directive(s, 6, 1, 12)
        d == directive(s, mo[2] + 1, 1, 31)
        h == directive(s, d[2] + 1, 0, 23)
        mi == directive(s, h[2] + 1, 0, 59)
        sec == directive(s, mi[2] + 1, 0, 61)
    IN  IF /\ Len(s) >= 4 /\ y # NoneNum
           /\ At(s, 5) = "-" /\ mo[1] # NoneNum
           /\ At(s, mo[2]) = "-" /\ d[1] # NoneNum
           /\ At(s, d[2]) \in {"T", "t"} /\ h[1] # NoneNum
           /\ At(s, h[2]) = ":" /\ mi[1] # NoneNum
           /\ At(s, mi[2]) = ":" /\ sec[1] # NoneNum
           /\ sec[2] = Len(s) + 1
        THEN datetime(y, mo[1], d[1], h[1], mi[1], sec[1], FALSE, 0)
        ELSE ValueError


\* None, as parse_utc_datetime returns it
NoneDt == [kind |-> "None"]

\* a parse that leaves a naive datetime naive: C15 does not hold of it
keep_naive(dt) == dt

\* if dt.tzinfo is None: dt = dt.replace(tzinfo=timezone.utc)
assume_utc(dt) ==
    IF dt.aware THEN dt ELSE [dt EXCEPT !.aware = TRUE, !.offset = 0]

\* a last resort without its `except ValueError`: C16 does not hold of it
last_resort_unguarded(s) == strptime(Slice(s, 1, 19))

\* except ValueError: try datetime.strptime(s[:19], ...) except ValueError:
\* return None
last_resort(s) ==
    CHOOSE r \in {IF dt = ValueError THEN NoneDt ELSE dt :
                     dt \in {strptime(Slice(s, 1, 19))}} : TRUE

\* parse_utc_datetime (the same text in garmin-activities.py and in sync.py):
\* NoneDt, a datetime, or ValueError when the exception leaves the function.
\* s is the text handed to datetime.fromisoformat: stripped, a trailing Z
\* replaced by +00:00, everything from the first dot up to the sign of the
\* offset cut
parse_utc_datetime(dt_str) ==
    LET stripped == Strip(dt_str)
        z == IF stripped # <<>> /\ stripped[Len(stripped)] = "Z"
             THEN Slice(stripped, 1, Len(stripped) - 1) \o
                  <<"+", "0", "0", ":", "0", "0">>
             ELSE stripped
        dot == Find(z, <<".">>)
        rest == Slice(z, dot + 1, Len(z))
        signs == {i \in 1..Len(rest) : rest[i] \in {"+", "-"}}
        tz_part == IF signs = {} THEN <<>>
                   ELSE Slice(rest, CHOOSE i \in signs : \A j \in signs : i <= j,
                              Len(rest))
        \* try: dt = datetime.fromisoformat(s), except ValueError: the last
        \* resort; each evaluated once
        parsed(s) ==
            CHOOSE r \in {IF dt = ValueError THEN last_resort(s) ELSE dt :
                             dt \in {fromisoformat(s)}} : TRUE
        result(dt) == IF dt.kind = "datetime" THEN assume_utc(dt) ELSE dt
    IN  IF dt_str = NoneStr \/ dt_str = EmptyStr THEN NoneDt
        ELSE CHOOSE r \in
                 {result(dt) :
                    dt \in {parsed(s) :
                              s \in {IF dot = 0 THEN z
                                     ELSE Slice(z, 1, dot - 1) \o tz_part}}} : TRUE

\* the instant of a datetime, in milliseconds since the epoch
timestamp(dt) ==
    LET y == dt.y
        leaps(n) == n \div 4 - n \div 100 + n \div 400
        days == 365 * (y - 1970) + leaps(y - 1) - leaps(1969)
                    + <<0, 31, 59, 90, 120, 151, 181, 212, 243, 273, 304, 334>>[dt.mo]
                    + (IF dt.mo > 2 /\ DaysInMonth(y, 2) = 29 THEN 1 ELSE 0)
                    + dt.d - 1
    IN  ((days * 24 + dt.h) * 60 + dt.mi) * 60000 + (dt.sec - dt.offset) * SecondMs

\* (dt + timedelta(days=1)).strftime('%Y-%m-%d'), for a year of four digits
next_day(dt) ==
    LET last == dt.d = DaysInMonth(dt.y, dt.mo)
        y == IF last /\ dt.mo = 12 THEN dt.y + 1 ELSE dt.y
        mo == IF ~last THEN dt.mo ELSE IF dt.mo = 12 THEN 1 ELSE dt.mo + 1
        d == IF last THEN 1 ELSE dt.d + 1
    IN  Digits(y) \o <<"-">> \o TwoDigits(mo) \o <<"-">> \o TwoDigits(d)

\* get_local_date_range of the script s on the text of a timestamp: the two
\* bounds of the window, as instants or as calendar dates; kind "none" is
\* (None, None), kind "raise" an exception that leaves the function
get_local_date_range(s, gmt_datetime_str) ==
    LET \* date_str = gmt_datetime_str.split('T')[0]
        date_str == IF Find(gmt_datetime_str, <<"T">>) = 0 THEN gmt_datetime_str
                    ELSE Slice(gmt_datetime_str, 1,
                               Find(gmt_datetime_str, <<"T">>) - 1)
        local_day(t) ==
            LET range == IF s = "standalone" THEN get_local_date_range_standalone(t)
                         ELSE get_local_date_range_unified(t)
            IN  [kind |-> "instants", start |-> range[1], end |-> range[2]]
        dates(date) ==
            IF gmt_datetime_str = NoneStr \/ date = ValueError
            THEN [kind |-> "raise"]
            ELSE [kind |-> "dates", start |-> date_str, end |-> next_day(date)]
        range_of(dt_utc) ==
            IF dt_utc.kind = "datetime"
            THEN CHOOSE r \in {local_day(t) : t \in {timestamp(dt_utc)}} : TRUE
            ELSE IF dt_utc.kind # "None" THEN [kind |-> "raise"]
            ELSE IF s = "unified" THEN [kind |-> "none"]
            ELSE CHOOSE r \in {dates(d) : d \in {fromisoformat(date_str)}} : TRUE
    IN  \* dt_utc = parse_utc_datetime(gmt_datetime_str), evaluated once
        CHOOSE r \in {range_of(dt_utc) :
                         dt_utc \in {parse_utc_datetime(gmt_datetime_str)}} : TRUE

\* activity_exists_by_date_fallback up to its query: the window the query is
\* made with (kind "query"), None returned without a query (kind "none", sync.py
\* `if not start_iso or not end_iso`), or the exception of get_local_date_range
fallback_window(s, activity_date_gmt) ==
    LET range == get_local_date_range(s, activity_date_gmt)
    IN  IF range.kind \in {"none", "raise"} THEN range
        ELSE [kind |-> "query", window |-> range]


-----------------------------------------------------------------------------
(* Fetch: get_recent_activities (sync.py), get_all_activities (both scripts) *)

\* the longest feed of the model
MaxFeed == 4

\* the page size: 100 in get_recent_activities, 200 in get_all_activities,
\* scaled down with the feed
batch_size == 2

\* a feed that answers every request with a full page
Endless == <<[activityId |-> 0, startTimeGMT |-> NoneStr]>>

\* garmin.get_activities(start, limit): the records start .. start + limit - 1
\* of the feed, counted from 0; no record past the end of the feed
get_activities_short(feed, start, limit) ==
    IF feed = Endless
    THEN SubSeq([i \in 1..limit |-> [activityId |-> start + i,
                                      startTimeGMT |-> NoneStr]], 1, limit - 1)
    ELSE Slice(feed, start + 1, start + limit - 1)

get_activities(feed, start, limit) ==
    IF feed = Endless
    THEN SubSeq([i \in 1..limit |-> [activityId |-> start + i,
                                      startTimeGMT |-> NoneStr]], 1, limit)
    ELSE Slice(feed, start + 1, start + limit)

\* a return without the slice: C25 does not hold of it
unlimited(all_activities, limit) == all_activities

\* all_activities[:limit], for limit >= 0
limited(all_activities, limit) == Slice(all_activities, 1, limit)

\* the feeds of the model, newest first: the activityId of a record is its
\* place in the feed, its startTimeGMT one of: three hours before now (16
\* January, noon), at and one second before the cutoff of days = 0 (13
\* January, noon), at and one second before the cutoff of days = 7 (6 January,
\* noon), missing, not a timestamp. A record without timestamp can stand
\* anywhere
FetchFeeds ==
    LET stamps == << <<"1","9","7","0","-","0","1","-","1","6","T","0","9",":","0","0",":","0","0",".","0">>,
                     <<"1","9","7","0","-","0","1","-","1","3"," ","1","2",":","0","0",":","0","0">>,
                     <<"1","9","7","0","-","0","1","-","1","3"," ","1","1",":","5","9",":","5","9">>,
                     <<"1","9","7","0","-","0","1","-","0","6"," ","1","2",":","0","0",":","0","0">>,
                     <<"1","9","7","0","-","0","1","-","0","6"," ","1","1",":","5","9",":","5","9">>,
                     NoneStr,
                     <<"y","e","s","t","e","r","d","a","y">> >>
    IN  {SubSeq([i \in 1..Len(f) |-> [activityId |-> i,
                                      startTimeGMT |-> stamps[f[i]]]], 1, Len(f)) :
            f \in {g \in UNION {[1..n -> 1..7] : n \in 0..MaxFeed} :
                      \A i, j \in 1..Len(g) :
                          (i < j /\ g[i] <= 5 /\ g[j] <= 5) => g[i] <= g[j]}}

-----------------------------------------------------------------------------
(* Personal records: sync.py sync_personal_records() *)

\* replace_activity_name_by_typeId(typeId)
replace_activity_name_by_typeId(typeId) ==
    IF typeId \in {1, 2, 3, 4, 7, 8, 9, 10, 12, 13, 14, 15}
    THEN [t \in {1, 2, 3, 4, 7, 8, 9, 10, 12, 13, 14, 15} |->
             CASE t = 1 -> "1K" [] t = 2 -> "1mi" [] t = 3 -> "5K" [] t = 4 -> "10K"
               [] t = 7 -> "Longest Run" [] t = 8 -> "Longest Ride"
               [] t = 9 -> "Total Ascent" [] t = 10 -> "Max Avg Power (20 min)"
               [] t = 12 -> "Most Steps in a Day" [] t = 13 -> "Most Steps in a Week"
               [] t = 14 -> "Most Steps in a Month"
               [] t = 15 -> "Longest Goal Streak"][typeId]
    ELSE "Unnamed Activity"

-----------------------------------------------------------------------------
(* Functions called on their own: parse_utc_datetime, the window and the query
   of activity_exists_by_date_fallback *)

\* calendar fields <<y, mo, d, h, mi, sec>> of the instants rendered: the first
\* days of the epoch, a leap day, the ends of months and of a year, the example
\* of the docstring
RenderedFields ==
    {f \in {1970, 2024, 2026} \X {1, 2, 12} \X {1, 28, 29, 31} \X {0, 18, 23}
           \X {0, 37} \X {0, 59} : f[3] <= DaysInMonth(f[1], f[2])}

\* the suffixes a UTC timestamp is written with
Forms == {"Z", "fraction", "fraction3", "offset"}

\* the text of a whole-second UTC instant: date, separator, time and suffix
render(f, sep, form) ==
    Digits(f[1]) \o <<"-">> \o TwoDigits(f[2]) \o <<"-">> \o TwoDigits(f[3])
        \o <<sep>> \o TwoDigits(f[4]) \o <<":">> \o TwoDigits(f[5])
        \o <<":">> \o TwoDigits(f[6])
        \o (IF form = "Z" THEN <<"Z">>
            ELSE IF form = "fraction" THEN <<".", "0">>
            ELSE IF form = "fraction3" THEN <<".", "0", "0", "0">>
            ELSE <<"+", "0", "0", ":", "0", "0">>)

\* other texts a feed can hold in startTimeGMT: missing, empty, malformed,
\* truncated, out of range, with another offset, with surrounding blanks
TimeTexts ==
    { NoneStr, EmptyStr,
      \* '   '
      <<" "," "," ">>,
      \* 'garbage'
      <<"g","a","r","b","a","g","e">>,
      \* '1970-01-02T12:0'
      <<"1","9","7","0","-","0","1","-","0","2","T","1","2",":","0">>,
      \* '1970-01-02'
      <<"1","9","7","0","-","0","1","-","0","2">>,
      \* '1970-13-01T00:00:00'
      <<"1","9","7","0","-","1","3","-","0","1","T","0","0",":","0","0",":","0","0">>,
      \* '1970-01-02T25:00:00'
      <<"1","9","7","0","-","0","1","-","0","2","T","2","5",":","0","0",":","0","0">>,
      \* '1970-01-02 25:00:00'
      <<"1","9","7","0","-","0","1","-","0","2"," ","2","5",":","0","0",":","0","0">>,
      \* '1970-12-31T24:00:00'
      <<"1","9","7","0","-","1","2","-","3","1","T","2","4",":","0","0",":","0","0">>,
      \* '1972-02-28T12:00:61'
      <<"1","9","7","2","-","0","2","-","2","8","T","1","2",":","0","0",":","6","1">>,
      \* '1970-1-2T3:4:5'
      <<"1","9","7","0","-","1","-","2","T","3",":","4",":","5">>,
      \* '1970-01-02T12:00:00+05:00'
      <<"1","9","7","0","-","0","1","-","0","2","T","1","2",":","0","0",":","0","0","+","0","5",":","0","0">>,
      \* '1970-01-02T12:00:00.5-05:00'
      <<"1","9","7","0","-","0","1","-","0","2","T","1","2",":","0","0",":","0","0",".","5","-","0","5",":","0","0">>,
      \* ' 1970-01-02T12:00:00Z '
      <<" ","1","9","7","0","-","0","1","-","0","2","T","1","2",":","0","0",":","0","0","Z"," ">>,
      \* '1970-01-02T12:00:00 UTC'
      <<"1","9","7","0","-","0","1","-","0","2","T","1","2",":","0","0",":","0","0"," ","U","T","C">>,
      \* '1970-01-01T23:30:00.0'
      <<"1","9","7","0","-","0","1","-","0","1","T","2","3",":","3","0",":","0","0",".","0">>,
      \* '1970-01-02 12:00:00'
      <<"1","9","7","0","-","0","1","-","0","2"," ","1","2",":","0","0",":","0","0">>,
      \* '1970-01-02T22:59:59Z'
      <<"1","9","7","0","-","0","1","-","0","2","T","2","2",":","5","9",":","5","9","Z">>,
      \* 'T1970-01-02'
      <<"T","1","9","7","0","-","0","1","-","0","2">> }

\* startTimeGMT of the incoming record, as instants: at local midnight of the
\* second local day of the epoch, half an hour after it (the UTC date is still
\* the day before), at noon, in the last second of the local day, and at noon
\* of the day after
RecordInstants ==
    LET Midnight == DayMs - TzOffsetMs
    IN  {Midnight, Midnight + 1800000, DayMs + 12 * 3600000,
         Midnight + DayMs - SecondMs, 2 * DayMs + 12 * 3600000}

\* Date of the stored page: around local midnight, around the last second of
\* the local day, around the next local midnight
DocumentInstants ==
    LET Midnight == DayMs - TzOffsetMs
    IN  {Midnight - 1, Midnight, Midnight + 1, DayMs + 12 * 3600000,
         Midnight + DayMs - SecondMs - 1, Midnight + DayMs - SecondMs,
         Midnight + DayMs - SecondMs + 1, Midnight + DayMs - 500,
         Midnight + DayMs - 1, Midnight + DayMs, Midnight + DayMs + 1,
         Midnight + 2 * DayMs - 1}

\* type keys of the feed: plain, mapped to a category, missing
TypeKeys ==
    { NoneStr,
      <<"r","u","n","n","i","n","g">>,
      <<"s","t","r","e","n","g","t","h","_","t","r","a","i","n","i","n","g">>,
      <<"y","o","g","a">>,
      <<"r","o","w","i","n","g","_","v","2">>,
      <<"i","n","d","o","o","r","_","c","y","c","l","i","n","g">>,
      <<"m","e","d","i","t","a","t","i","o","n">> }

\* labels of the feed: without an override word, with one, with several in
\* and against the order meditation, barre, stretch, in upper case, missing
Labels ==
    { NoneStr, EmptyStr,
      \* 'Morning Barre Class'
      <<"M","o","r","n","i","n","g"," ","B","a","r","r","e"," ","C","l","a","s","s">>,
      \* 'Barre Stretch'
      <<"B","a","r","r","e"," ","S","t","r","e","t","c","h">>,
      \* 'Evening MEDITATION and stretch'
      <<"E","v","e","n","i","n","g"," ","M","E","D","I","T","A","T","I","O","N"," ","a","n","d"," ","s","t","r","e","t","c","h">>,
      \* 'stretching, barre, meditation'
      <<"s","t","r","e","t","c","h","i","n","g",","," ","b","a","r","r","e",","," ","m","e","d","i","t","a","t","i","o","n">>,
      \* 'Morning Run'
      <<"M","o","r","n","i","n","g"," ","R","u","n">>,
      \* 'Stretch'
      <<"S","t","r","e","t","c","h">>,
      \* 'BARRE'
      <<"B","A","R","R","E">> }

\* incoming records of the change detector: with and without the training
\* effect label and messages
DetectRecords ==
    {ActA, [ActA EXCEPT !.trainingEffectLabel = NoneStr,
                        !.aerobicTrainingEffectMessage = NoneStr,
                        !.anaerobicTrainingEffectMessage = NoneStr]}

\* the arguments of one call. op "parse": a rendered instant (fields,
\* separator, form) or one of the other texts (fields <<>>); op "range": one
\* of the other texts; op "lookup": the record's startTimeGMT and the date of
\* the one stored page; op "format" and op "category": a type key and a label
\* of the feed; op "detect": a
\* record and the document created from it, less its property map or less one
\* property, or with one property that is compared for equality edited in the
\* store; op "recent": a feed, the days to look back and the time of the call;
\* op "all": a feed, which may be endless, and the limit; op "records": the
\* personal records of the feed (typeId, prStartTimeGmtFormatted as a day
\* number; both dates are ISO texts, whose order is the order of time) less
\* those of typeId 16, and the records database; op "measure": one of the three functions that do arithmetic on the
\* record, a record with one measurement absent (get returns the default 0) or
\* null (get returns None), and a document with or without external id
InitCall ==
    /\ DriverIdle
    /\ daily = Idle
    /\ mainst = Idle
    /\ \E s \in {"standalone", "unified"} :
          \/ \E f \in RenderedFields, sep \in {"T", " "}, form \in Forms :
                fn = [st |-> "call", op |-> "parse", s |-> s, fields |-> f,
                      sep |-> sep, dt_str |-> render(f, sep, form),
                      result |-> NoneDt]
          \/ \E t \in TimeTexts, op \in {"parse", "range"} :
                fn = [st |-> "call", op |-> op, s |-> s, fields |-> <<>>,
                      sep |-> "T", dt_str |-> t, result |-> NoneDt]
          \/ \E t \in RecordInstants, d \in DocumentInstants :
                fn = [st |-> "call", op |-> "lookup", s |-> s, date_gmt |-> t,
                      doc_date |-> d, result |-> NotFound]
          \/ \E a \in DetectRecords, has \in BOOLEAN, how \in {"absent", "null"},
                f \in ((DOMAIN PageOf(1, ActA).props) \ {"ActivityName", "Date"})
                         \cup {"none"} :
                fn = [st |-> "call", op |-> "detect", s |-> s,
                      existing_activity |->
                          [has_properties |-> has, missing |-> f, how |-> how,
                           page |-> PageOf(1, a)],
                      new_activity |-> a, result |-> [kind |-> "none"]]
          \/ \E a \in DetectRecords,
                f \in {"AvgPace", "Calories", "ActivityType", "TrainingEffect",
                       "AerobicEffect", "AnaerobicEffect", "PR", "Fav"} :
                LET page == PageOf(1, a)
                    other == IF f \in {"PR", "Fav"} THEN ~page.props[f]
                             ELSE IF f = "Calories" THEN page.props[f] + 1000
                             ELSE IF f = "AvgPace" THEN format_pace(3000)
                             ELSE S_Rowing
                IN  fn = [st |-> "call", op |-> "detect", s |-> s,
                          existing_activity |->
                              [has_properties |-> TRUE, missing |-> "none",
                               how |-> "absent",
                               page |-> [page EXCEPT !.props[f] = other]],
                          new_activity |-> a, result |-> [kind |-> "none"]]
          \/ \E k \in {"distance", "duration", "calories", "averageSpeed",
                       "avgPower", "maxPower", "aerobicTrainingEffect",
                       "anaerobicTrainingEffect"},
                how \in {"absent", "null"}, of \in {ActA, ActB},
                f \in {"activity_needs_update", "create_activity",
                       "update_activity"} :
                \E dry \in (IF s = "standalone" THEN BOOLEAN ELSE {FALSE}) :
                   fn = [st |-> "call", op |-> "measure", s |-> s, f |-> f,
                         dry |-> dry, key |-> k, how |-> how,
                         existing_activity |->
                             [has_properties |-> TRUE, missing |-> "none",
                              how |-> "absent", page |-> PageOf(1, of)],
                         new_activity |->
                             [ActA EXCEPT ![k] = IF how = "absent" THEN 0
                                                 ELSE NoneNum],
                         result |-> [kind |-> "none"]]
          \/ \E feed \in FetchFeeds, days \in {0, 7} :
                /\ s = "unified"
                /\ fn = [st |-> "call", op |-> "recent", s |-> s, feed |-> feed,
                         days |-> days, now |-> 15 * DayMs + 12 * 3600000,
                         start |-> 0, all_activities |-> <<>>,
                         requests |-> <<>>, result |-> <<>>]
          \/ \E feed \in {f \in FetchFeeds :
                               \A i \in 1..Len(f) : f[i].startTimeGMT = NoneStr}
                           \cup {Endless},
                limit \in 0..(MaxFeed + 1) :
                fn = [st |-> "call", op |-> "all", s |-> s, feed |-> feed,
                      limit |-> limit, start |-> 0, all_activities |-> <<>>,
                      requests |-> <<>>, result |-> <<>>]
          \/ \E records \in UNION {[1..n -> [typeId : {3, 16, 99},
                                               date : {NoneNum, 1, 2, 3}]] :
                                     n \in 0..2},
                db \in {<<>>,
                        <<[Record |-> "5K", Date |-> 2, PR |-> TRUE]>>,
                        <<[Record |-> "5K", Date |-> 1, PR |-> FALSE],
                          [Record |-> "5K", Date |-> 2, PR |-> TRUE],
                          [Record |-> "Unnamed Activity", Date |-> 2, PR |-> TRUE]>>} :
                /\ s = "unified"
                /\ fn = [st |-> "call", op |-> "records", s |-> s,
                         records |-> SelectSeq(records, LAMBDA r : r.typeId # 16),
                         i |-> 1, db0 |-> db, db |-> db, writes |-> <<>>,
                         found |-> "none",
                         tally |-> [created |-> 0, updated |-> 0, errors |-> 0]]
          \/ \E k \in TypeKeys, l \in Labels, op \in {"format", "category"} :
                fn = [st |-> "call", op |-> op, s |-> s, type_key |-> k,
                      activity_name |-> l, result |-> <<>>]

\* dt_utc = parse_utc_datetime(gmt_datetime_str)
ParseUtcDatetime ==
    /\ fn.st = "call"
    /\ fn.op = "parse"
    /\ fn' = [fn EXCEPT !.st = "returned",
                        !.result = parse_utc_datetime(fn.dt_str)]
    /\ UNCHANGED <<drvVars, daily, mainst>>

\* activity_exists_by_date_fallback(..., activity_date_gmt, ...) up to its query
FallbackWindow ==
    /\ fn.st = "call"
    /\ fn.op = "range"
    /\ fn' = [fn EXCEPT !.st = "returned",
                        !.result = fallback_window(fn.s, fn.dt_str)]
    /\ UNCHANGED <<drvVars, daily, mainst>>

\* existing_activity = activity_exists_by_date_fallback(client, database_id,
\*     activity_date_gmt, activity_type, activity_name), the query returning;
\* the database holds one page: the page of the record without external id,
\* dated fn.doc_date
WinLookup ==
    /\ fn.st = "call"
    /\ fn.op = "lookup"
    /\ LET activity_name == format_entertainment(ActB.activityName)
           activity_type == format_activity_type(ActB.typeKey, activity_name)[1]
           db == <<[PageOf(1, ActB) EXCEPT !.props.Date = fn.doc_date]>>
       IN  fn' = [fn EXCEPT
                     !.st = "returned",
                     !.result = activity_exists_by_date_fallback(
                                    fn.s, db, fn.date_gmt,
                                    activity_type, activity_name)]
    /\ UNCHANGED <<drvVars, daily, mainst>>

\* activity_type, activity_subtype = format_activity_type(type_key, activity_name)
FormatActivityType ==
    /\ fn.st = "call"
    /\ fn.op = "format"
    /\ fn' = [fn EXCEPT !.st = "returned",
                        !.result = format_activity_type(fn.type_key,
                                                        fn.activity_name)]
    /\ UNCHANGED <<drvVars, daily, mainst>>

\* the category that the loop of main() / sync_activities() hands to
\* activity_exists_by_date_fallback for a feed record and that the lookup puts
\* in the "Activity Type" condition of its query
FallbackCategory ==
    /\ fn.st = "call"
    /\ fn.op = "category"
    /\ LET activity_name == format_entertainment(fn.activity_name)
           activity_type == format_activity_type(fn.type_key, activity_name)[1]
       IN  fn' = [fn EXCEPT
                     !.st = "returned",
                     !.result = IF fn.s = "standalone"
                                THEN lookup_type_standalone(activity_type,
                                                            activity_name)
                                ELSE activity_type]
    /\ UNCHANGED <<drvVars, daily, mainst>>

\* get_recent_activities(garmin, days): one turn of `while True`, from the
\* request of a page to the return or to the next request
GetRecentActivities ==
    /\ fn.st = "call"
    /\ fn.op = "recent"
    /\ \E chunk \in {get_activities(fn.feed, fn.start, batch_size)},
          cutoff_date \in {fn.now - (fn.days + 3) * DayMs} :
          \* the records at which the for loop returns
          \E stops \in {{i \in 1..Len(chunk) :
                           /\ chunk[i].startTimeGMT \notin {NoneStr, EmptyStr}
                           /\ \E activity_date \in
                                  {parse_utc_datetime(chunk[i].startTimeGMT)} :
                                  /\ activity_date.kind = "datetime"
                                  /\ timestamp(activity_date) < cutoff_date}} :
             \E appended \in {Slice(chunk, 1,
                                    (CHOOSE i \in stops \cup {Len(chunk) + 1} :
                                        \A j \in stops : i <= j) - 1)} :
                fn' = [fn EXCEPT
                          !.requests = Append(@, fn.start),
                          !.all_activities = @ \o appended,
                          !.st = IF chunk = <<>> \/ stops # {} THEN "returned"
                                 ELSE "call",
                          !.start = IF chunk = <<>> \/ stops # {} THEN @
                                    ELSE @ + batch_size,
                          !.result = IF chunk = <<>> \/ stops # {}
                                     THEN fn.all_activities \o appended
                                     ELSE @]
    /\ UNCHANGED <<drvVars, daily, mainst>>

\* get_all_activities(garmin, limit): one turn of `while True`
GetAllActivities ==
    /\ fn.st = "call"
    /\ fn.op = "all"
    /\ LET chunk == get_activities(fn.feed, fn.start, batch_size)
           requests == Append(fn.requests, fn.start)
       IN  IF chunk = <<>>
           THEN fn' = [fn EXCEPT !.st = "returned", !.requests = requests,
                                 !.result = limited(fn.all_activities, fn.limit)]
           ELSE IF Len(fn.all_activities \o chunk) >= fn.limit
           THEN fn' = [fn EXCEPT !.st = "returned", !.requests = requests,
                                 !.all_activities = @ \o chunk,
                                 !.start = @ + batch_size,
                                 !.result = limited(fn.all_activities \o chunk,
                                                    fn.limit)]
           ELSE fn' = [fn EXCEPT !.requests = requests,
                                 !.all_activities = @ \o chunk,
                                 !.start = @ + batch_size]
    /\ UNCHANGED <<drvVars, daily, mainst>>

\* sync_personal_records(garmin, notion, database_id): one turn of the for
\* loop, or the return after the last record. The query is outside the try:
\* when it fails the exception leaves the function. fn.writes are the store
\* calls made for the record, failed ones included
SyncPersonalRecord ==
    /\ fn.st = "call"
    /\ fn.op = "records"
    /\ IF fn.i > Len(fn.records)
       THEN fn' = [fn EXCEPT !.st = "returned"]
       ELSE \E query_ok, update_ok, create_ok \in BOOLEAN :
            LET record == fn.records[fn.i]
                activity_date == record.date
                activity_name == replace_activity_name_by_typeId(record.typeId)
                results == SelectSeq(fn.db, LAMBDA p : p.Record = activity_name
                                                      /\ p.PR = TRUE)
                existing_page == CHOOSE k \in 1..Len(fn.db) : fn.db[k] = results[1]
                page == [Record |-> activity_name, Date |-> activity_date,
                         PR |-> TRUE]
                newer == activity_date # NoneNum
                            /\ activity_date > fn.db[existing_page].Date
                unflag == [op |-> "pages.update", page |-> existing_page, ok |-> update_ok]
                create == [op |-> "pages.create", page |-> page, ok |-> create_ok]
                Tally(field) == [fn.tally EXCEPT ![field] = @ + 1]
            IN  IF ~query_ok
                THEN /\ update_ok /\ create_ok
                     /\ fn' = [fn EXCEPT !.st = "raised", !.writes = <<>>,
                                         !.found = "raised"]
                ELSE IF results # <<>> /\ ~newer
                THEN /\ update_ok /\ create_ok
                     /\ fn' = [fn EXCEPT !.i = @ + 1, !.writes = <<>>,
                                         !.found = "not newer",
                                         !.tally = Tally("updated")]
                ELSE IF results # <<>> /\ ~update_ok
                THEN /\ create_ok
                     /\ fn' = [fn EXCEPT !.i = @ + 1, !.writes = <<unflag>>,
                                         !.found = "newer",
                                         !.tally = Tally("errors")]
                ELSE IF results # <<>>
                THEN fn' = [fn EXCEPT
                               !.i = @ + 1,
                               !.writes = <<unflag, create>>,
                               !.found = "newer",
                               !.db = IF create_ok
                                      THEN Append([@ EXCEPT ![existing_page].PR = FALSE],
                                                  page)
                                      ELSE [@ EXCEPT ![existing_page].PR = FALSE],
                               !.tally = IF create_ok THEN Tally("created")
                                         ELSE Tally("errors")]
                ELSE /\ update_ok
                     /\ fn' = [fn EXCEPT
                                  !.i = @ + 1,
                                  !.writes = <<create>>,
                                  !.found = "none",
                                  !.db = IF create_ok THEN Append(@, page) ELSE @,
                                  !.tally = IF create_ok THEN Tally("created")
                                            ELSE Tally("errors")]
    /\ UNCHANGED <<drvVars, daily, mainst>>

\* activity_needs_update(existing_activity, new_activity),
\* create_activity(client, database_id, activity) or
\* update_activity(client, existing_activity, new_activity) up to its store
\* call, on a record with an absent or null measurement
Measurement ==
    /\ fn.st = "call"
    /\ fn.op = "measure"
    /\ fn' = [fn EXCEPT
                 !.st = "returned",
                 !.result = IF fn.f = "activity_needs_update"
                            THEN document_needs_update(fn.s, fn.existing_activity,
                                                       fn.new_activity)
                            ELSE written_properties(fn.s, fn.dry, fn.new_activity)]
    /\ UNCHANGED <<drvVars, daily, mainst>>

\* needs_update = activity_needs_update(existing_activity, new_activity)
DetectChange ==
    /\ fn.st = "call"
    /\ fn.op = "detect"
    /\ fn' = [fn EXCEPT !.st = "returned",
                        !.result = document_needs_update(fn.s, fn.existing_activity,
                                                         fn.new_activity)]
    /\ UNCHANGED <<drvVars, daily, mainst>>

NextCall ==
    \/ ParseUtcDatetime
    \/ FallbackWindow
    \/ WinLookup
    \/ FormatActivityType
    \/ FallbackCategory
    \/ GetRecentActivities
    \/ GetAllActivities
    \/ SyncPersonalRecord
    \/ Measurement
    \/ DetectChange

SpecCall == InitCall /\ [][NextCall]_vars

\* C13 (as claimed): in both scripts the heuristic lookup selects the stored
\* page, whose category and title are those of the record, exactly when its
\* date d satisfies startOfDay <= d < startOfDay + 1 day, startOfDay being
\* local midnight of the record's local day
C13_HalfOpenLocalDay ==
    (fn.st = "returned" /\ fn.op = "lookup") =>
        LET startOfDay == start_of_local_day(fn.date_gmt)
            endOfDay == startOfDay + DayMs
        IN  (fn.result.kind = "page")
                <=> (startOfDay <= fn.doc_date /\ fn.doc_date < endOfDay)

\* C14 (as claimed): when the timestamp of a record is missing or cannot be
\* parsed, the fallback lookup still makes its query and no exception leaves
\* it; where the first 10 characters of the text are a calendar date, the
\* window of the query is that date and the following calendar date
C14_ParseFailureRecovery ==
    (/\ fn.st = "returned"
     /\ fn.op = "range"
     /\ parse_utc_datetime(fn.dt_str) = NoneDt)
        => /\ fn.result.kind = "query"
           /\ LET lead == Slice(fn.dt_str, 1, 10)
              IN  (fn.dt_str # NoneStr /\ Len(fn.dt_str) >= 10
                   /\ fromisoformat(lead) # ValueError)
                      => /\ fn.result.window.kind = "dates"
                         /\ fn.result.window.start = lead
                         /\ fn.result.window.end = next_day(fromisoformat(lead))


\* C15: a whole-second UTC instant written with a trailing Z, with a fraction
\* of a second and no zone, or with the offset +00:00 is parsed by
\* parse_utc_datetime to that instant, zone-aware and in UTC: the renderings
\* of one instant all parse to the same value
C15_TimestampRoundTrip ==
    (fn.st = "returned" /\ fn.op = "parse" /\ fn.fields # <<>>) =>
        /\ fn.result = datetime(fn.fields[1], fn.fields[2], fn.fields[3],
                                fn.fields[4], fn.fields[5], fn.fields[6], TRUE, 0)
        /\ \A form \in Forms :
              parse_utc_datetime(render(fn.fields, fn.sep, form)) = fn.result

\* C15 witness: "2026-01-28T18:37:00.0", which names no zone, has been parsed
\* to 18:37:00 UTC of 28 January 2026
C15_Witness ==
    /\ fn.st = "returned"
    /\ fn.op = "parse"
    /\ fn.fields = <<2026, 1, 28, 18, 37, 0>>
    /\ fn.dt_str = render(fn.fields, "T", "fraction")
    /\ fn.result.kind = "datetime"
    /\ fn.result.aware
    /\ fn.result.offset = 0
    /\ <<fn.result.y, fn.result.mo, fn.result.d>> = <<2026, 1, 28>>
    /\ <<fn.result.h, fn.result.mi, fn.result.sec>> = <<18, 37, 0>>

\* C16: parse_utc_datetime returns None or a datetime for every text, empty,
\* malformed or truncated, and no exception leaves it; every datetime it
\* returns is zone-aware
C16_ParseIsTotal ==
    (fn.st = "returned" /\ fn.op = "parse") =>
        /\ fn.result.kind \in {"None", "datetime"}
        /\ fn.result.kind = "datetime" => fn.result.aware

\* C16 witness: the truncated text "1970-01-02T12:0", which neither
\* datetime.fromisoformat nor datetime.strptime accepts, has been parsed to None
C16_Witness ==
    /\ fn.st = "returned"
    /\ fn.op = "parse"
    /\ Len(fn.dt_str) = 15
    /\ fromisoformat(fn.dt_str) = ValueError
    /\ strptime(fn.dt_str) = ValueError
    /\ fn.result = NoneDt


\* C17: whatever the type key, a label that contains "meditation", "barre" or
\* "stretch" in any case gets the fixed pair of the first of these words, in
\* this order, that it contains: (Meditation, Meditation), (Strength, Barre),
\* (Stretching, Stretching)
C17_LabelOverridePrecedence ==
    (fn.st = "returned" /\ fn.op = "format") =>
        LET label == Lower(fn.activity_name)
        IN  IF Contains(label, <<"m","e","d","i","t","a","t","i","o","n">>)
            THEN fn.result = <<<<"M","e","d","i","t","a","t","i","o","n">>, <<"M","e","d","i","t","a","t","i","o","n">>>>
            ELSE IF Contains(label, <<"b","a","r","r","e">>)
            THEN fn.result = <<<<"S","t","r","e","n","g","t","h">>, <<"B","a","r","r","e">>>>
            ELSE Contains(label, <<"s","t","r","e","t","c","h">>)
                     => fn.result = <<<<"S","t","r","e","t","c","h","i","n","g">>, <<"S","t","r","e","t","c","h","i","n","g">>>>

\* C17 witness: type key "strength_training" with the label "Morning Barre
\* Class" has been formatted as (Strength, Barre)
C17_Witness ==
    /\ fn.st = "returned"
    /\ fn.op = "format"
    /\ fn.type_key = <<"s","t","r","e","n","g","t","h","_","t","r","a","i","n","i","n","g">>
    /\ fn.activity_name = <<"M","o","r","n","i","n","g"," ","B","a","r","r","e"," ","C","l","a","s","s">>
    /\ fn.result = <<S_Strength, S_Barre>>


\* C18 (as claimed): activity_needs_update returns a boolean, and no exception
\* leaves it, for every stored document, its property map or one of its
\* properties being missing or null; where the document is the one created
\* from the incoming record less one property that garmin-activities.py
\* compares, the result is that of comparing the incoming value with 0 for a
\* number, with the empty string for a text or a select (the three training
\* effect selects included) and with false for a checkbox
C18_NullSafeReads ==
    (fn.st = "returned" /\ fn.op = "detect") =>
        /\ fn.result.kind = "bool"
        /\ LET f == fn.existing_activity.missing
               new == incoming_properties(fn.new_activity)
           IN  (/\ fn.s = "standalone"
                /\ fn.existing_activity.has_properties
                /\ f \notin {"none", "GarminID", "ActivityType", "SubactivityType"})
                   => fn.result.value =
                          IF f \in {"PR", "Fav"} THEN new[f] # FALSE
                          ELSE IF f \in {"AvgPace", "TrainingEffect", "AerobicEffect",
                                         "AnaerobicEffect"} THEN new[f] # EmptyStr
                          ELSE IF f = "Calories" THEN new[f] # 0
                          ELSE ~approx_equal(0, new[f], Tolerance(f))


-----------------------------------------------------------------------------
(* Properties of the driver: a record that comes twice, dry run *)

\* the external ids that two records of the batch carry
RepeatedIds ==
    {activities[i].activityId : i \in {i \in 1..Len(activities) :
        /\ activities[i].activityId # NoneNum
        /\ \E j \in 1..Len(activities) :
              j # i /\ activities[j].activityId = activities[i].activityId}}

\* the pages with external id x that the run has added to the database
CreatedFor(x) ==
    {i \in (Len(store0) + 1)..Len(store) : store[i].props.GarminID = x}

\* C19 (as claimed): when two records of the batch carry one external id, the
\* database held no page with that id and no store call failed, the run has
\* created exactly one page for that id
C19_AsClaimed ==
    (Finished /\ run = 1 /\ failed = 0) =>
        \A x \in RepeatedIds :
            query_garmin_id(store0, x) = {} => Cardinality(CreatedFor(x)) = 1

\* C19 (amended): when two records of the batch carry one external id, the
\* database held no page with that id, no store call failed and the run is
\* not a dry run, the run has created at most one page for that id and leaves
\* at most one page with it; it has created exactly one when the database was
\* empty and the batch starts with such a record, and the second of them found
\* that page by its id
C19_ReadAfterWrite ==
    (Finished /\ run = 1 /\ failed = 0 /\ ~DRY_RUN) =>
        \A x \in RepeatedIds :
            query_garmin_id(store0, x) = {} =>
                /\ Cardinality(CreatedFor(x)) <= 1
                /\ Cardinality(query_garmin_id(store, x)) <= 1
                /\ (store0 = <<>> /\ activities[1].activityId = x)
                       => /\ Cardinality(CreatedFor(x)) = 1
                          /\ query_garmin_id(store, x) = CreatedFor(x)

\* C19 witness: the batch held the same record twice, the database was empty,
\* nothing failed, and the run ended with one page created and the second
\* record found by its id
C19_Witness ==
    /\ Finished
    /\ run = 1
    /\ failed = 0
    /\ ~DRY_RUN
    /\ activities = <<ActA, ActA>>
    /\ store0 = <<>>
    /\ Len(store) = 1
    /\ cnt.created = 1
    /\ calls # <<>>
    /\ calls[1].op = "query_id"
    /\ calls[1].n = 1


\* C20: in a dry run of garmin-activities.py no pages.create and no
\* pages.update is issued and the database stays as the run found it, while
\* the lookups still query the database and a record that would be created or
\* updated is counted as created or updated
C20_DryRunWritesNothing ==
    (script = "standalone" /\ DRY_RUN) =>
        /\ store = store0
        /\ CallsOf(WriteOps) = <<>>
        /\ Finished =>
              /\ CallsOf(QueryOps) # <<>>
              /\ CallsOf({"create_activity"}) # <<>> => cnt = Bump(cnt0, "created")
              /\ CallsOf({"update_activity"}) # <<>> => cnt = Bump(cnt0, "updated")

\* C20 witness: a dry run on an empty database has looked a record up, has
\* called create_activity for it and has counted it as created, and the
\* database is still empty
C20_Witness ==
    /\ script = "standalone"
    /\ DRY_RUN
    /\ Finished
    /\ calls[1].op \in QueryOps
    /\ CallsOf({"create_activity"}) # <<>>
    /\ cnt.created = 1
    /\ store0 = <<>>
    /\ store = <<>>


-----------------------------------------------------------------------------
(* Properties of the change detector: properties compared for equality *)

\* C21 (as claimed): in both scripts, the stored document and the incoming
\* record both carrying the external id, activity_needs_update returns True
\* when the document differs from what the record is written as in exactly
\* one of: pace, calories, category, training effect, aerobic effect,
\* anaerobic effect, personal-record flag, favourite flag
C21_ExactMatchFields ==
    (/\ fn.st = "returned"
     /\ fn.op = "detect"
     /\ fn.existing_activity.has_properties
     /\ fn.existing_activity.missing = "none"
     /\ fn.existing_activity.page.props.GarminID # NoneNum
     /\ fn.new_activity.activityId # NoneNum
     /\ \E f \in {"AvgPace", "Calories", "ActivityType", "TrainingEffect",
                  "AerobicEffect", "AnaerobicEffect", "PR", "Fav"} :
           /\ fn.existing_activity.page.props[f]
                  # incoming_properties(fn.new_activity)[f]
           /\ OthersEqual(fn.existing_activity.page, fn.new_activity, f))
        => fn.result = [kind |-> "bool", value |-> TRUE]


-----------------------------------------------------------------------------
(* Properties of the heuristic lookup: the category it asks for *)

\* C22 (as claimed): in both scripts, for every type key and every label, the
\* category in the query of activity_exists_by_date_fallback is the category
\* that format_activity_type gives, and that create and update store, for the
\* same type key and label, labels with "stretch" and "barre" or "meditation"
\* included
C22_LookupCategoryMirrorsFormatter ==
    (fn.st = "returned" /\ fn.op = "category") =>
        fn.result = format_activity_type(fn.type_key,
                                         format_entertainment(fn.activity_name))[1]


-----------------------------------------------------------------------------
(* Properties of the functions that do arithmetic on the record *)

\* C23 (as claimed): in both scripts, for a record in which one measurement
\* (distance, duration, calories, average speed, average or maximum power,
\* aerobic or anaerobic score) is absent or null, no exception leaves
\* activity_needs_update, create_activity or update_activity, and the result
\* is the one for the record with the value 0
C23_NullMeasurements ==
    (fn.st = "returned" /\ fn.op = "measure") =>
        LET zero == [fn.new_activity EXCEPT ![fn.key] = 0]
        IN  /\ fn.result.kind # "raise"
            /\ fn.result = IF fn.f = "activity_needs_update"
                           THEN document_needs_update(fn.s, fn.existing_activity,
                                                      zero)
                           ELSE written_properties(fn.s, fn.dry, zero)


-----------------------------------------------------------------------------
(* Properties of the fetch *)

\* the places in the feed of the records whose startTimeGMT parses to an
\* instant before (TRUE) or not before (FALSE) now - (days + 3) days
DatedRecords(before) ==
    {i \in 1..Len(fn.feed) :
        /\ fn.feed[i].startTimeGMT \notin {NoneStr, EmptyStr}
        /\ \E dt \in {parse_utc_datetime(fn.feed[i].startTimeGMT)} :
              /\ dt.kind = "datetime"
              /\ (timestamp(dt) < fn.now - (fn.days + 3) * DayMs) = before}

\* C24: for a feed that is newest first, get_recent_activities(days) returns
\* the records of the feed that come before the first one whose timestamp
\* parses to an instant older than now - (days + 3) days, all of them when
\* there is none: no record returned is older than the cutoff, every record at
\* or after the cutoff is returned, records without a timestamp that parses
\* are kept, and the pages requested are those at 0, batch_size, ... up to the
\* page that holds the first older record
C24_IncrementalFetchWindow ==
    (fn.st = "returned" /\ fn.op = "recent") =>
        \E older \in {DatedRecords(TRUE)}, newer \in {DatedRecords(FALSE)} :
            \E n \in {(CHOOSE i \in older \cup {Len(fn.feed) + 1} :
                          \A j \in older : i <= j) - 1} :
                /\ fn.result = Slice(fn.feed, 1, n)
                /\ \A i \in older : \A k \in 1..Len(fn.result) :
                       fn.result[k] # fn.feed[i]
                /\ \A i \in newer : \E k \in 1..Len(fn.result) :
                       fn.result[k] = fn.feed[i]
                /\ \A k \in 1..Len(fn.requests) :
                       /\ fn.requests[k] = (k - 1) * batch_size
                       /\ older # {} => fn.requests[k] <= n

\* C24 witness: with days = 0, the fourth record of a feed, on the second page,
\* was the first older than the cutoff; the three before it were returned, one
\* of them without a timestamp that parses, after two requests
C24_Witness ==
    /\ fn.st = "returned"
    /\ fn.op = "recent"
    /\ fn.days = 0
    /\ Len(fn.feed) = 4
    /\ fn.feed[2].startTimeGMT = <<"y","e","s","t","e","r","d","a","y">>
    /\ fn.feed[3].startTimeGMT = <<"1","9","7","0","-","0","1","-","1","3"," ","1","2",":","0","0",":","0","0">>
    /\ fn.feed[4].startTimeGMT = <<"1","9","7","0","-","0","1","-","1","3"," ","1","1",":","5","9",":","5","9">>
    /\ fn.result = Slice(fn.feed, 1, 3)
    /\ fn.requests = <<0, batch_size>>


\* get_all_activities alone, a loop that can take a turn taking it
InitAll == InitCall /\ fn.op = "all"

SpecAll == InitAll /\ [][GetAllActivities]_vars /\ WF_vars(GetAllActivities)

\* C25: get_all_activities requests the pages at 0, batch_size, 2 batch_size,
\* ... and stops at the first empty page or as soon as it holds at least
\* `limit` records; it returns, also when the feed has no empty page; what it
\* returns is the first min(length of the feed, limit) records of the feed in
\* feed order, never more than `limit`
C25_FullFetchCapped ==
    /\ [](fn.op = "all" =>
            /\ \A k \in 1..Len(fn.requests) :
                  /\ fn.requests[k] = (k - 1) * batch_size
                  \* before each later request the page was not empty and the
                  \* limit not reached
                  /\ k > 1 => /\ get_activities(fn.feed, fn.requests[k - 1],
                                                batch_size) # <<>>
                              /\ (IF fn.feed = Endless THEN fn.requests[k]
                                   ELSE Len(Slice(fn.feed, 1, fn.requests[k])))
                                     < fn.limit
            /\ fn.st = "returned" =>
                  /\ Len(fn.result) <= fn.limit
                  /\ \/ get_activities(fn.feed, fn.start, batch_size) = <<>>
                     \/ Len(fn.all_activities) >= fn.limit
                  /\ IF fn.feed = Endless
                     THEN /\ Len(fn.result) = fn.limit
                          /\ \A i \in 1..Len(fn.result) : fn.result[i].activityId = i
                     ELSE fn.result = Slice(fn.feed, 1, fn.limit))
    /\ (fn.op = "all") ~> (fn.st = "returned")

\* C25 witness: an endless feed, read with limit 2 batch_size + 1, was cut off
\* after three pages and the first `limit` records were returned
C25_Witness ==
    /\ fn.st = "returned"
    /\ fn.op = "all"
    /\ fn.feed = Endless
    /\ fn.limit = 2 * batch_size + 1
    /\ fn.requests = <<0, batch_size, 2 * batch_size>>
    /\ Len(fn.all_activities) = 3 * batch_size
    /\ Len(fn.result) = fn.limit


-----------------------------------------------------------------------------
(* Properties of the driver: the tally *)

\* C26: in both scripts the five counters are 0 when a run starts; at every
\* point of the loop created + updated + unchanged + skipped + errors is the
\* number of records the loop is done with; the step that finishes a record
\* adds exactly 1 to exactly one counter and no other step changes a counter
\* within a run; when the run completes, the sum is the number of fetched
\* records
C26_CounterConservation ==
    /\ [](/\ cnt.created + cnt.updated + cnt.unchanged + cnt.skipped + cnt.errors
                = idx - 1
          /\ idx = 1 => cnt = ZeroCounters
          /\ pc = "done" => idx - 1 = Len(activities))
    /\ [][IF run' # run THEN cnt' = ZeroCounters /\ idx' = 1
          ELSE IF idx' = idx THEN cnt' = cnt
          ELSE /\ idx' = idx + 1
               /\ \E f \in DOMAIN cnt : cnt' = [cnt EXCEPT ![f] = @ + 1]]_vars

\* C26 witness: a run of two records completed, one record skipped for an
\* ambiguous lookup and one created
C26_Witness ==
    /\ pc = "done"
    /\ Len(activities) = 2
    /\ cnt.skipped = 1
    /\ cnt.created = 1


-----------------------------------------------------------------------------
(* Properties of the driver: external ids in the store *)

\* no two documents of the database carry the same external id
UniqueIds(db) ==
    \A i, j \in 1..Len(db) :
        (i # j /\ db[i].props.GarminID # NoneNum)
            => db[i].props.GarminID # db[j].props.GarminID

\* C27: in both scripts, if every external id was carried by at most one
\* document when the run started, it is carried by at most one document after
\* every record the run processes, whatever creates, updates and degraded
\* retries fail (a failed write changing nothing) and whichever records the
\* batch holds
C27_NoDuplicateExternalId ==
    UniqueIds(store0) => UniqueIds(store)

\* C27 witness: the same record came twice to an empty database; the create
\* for the first failed, the second was created, and one document carries
\* the id
C27_Witness ==
    /\ pc = "done"
    /\ store0 = <<>>
    /\ Len(activities) = 2
    /\ activities[1] = activities[2]
    /\ activities[1].activityId # NoneNum
    /\ cnt.errors = 1
    /\ cnt.created = 1
    /\ Len(store) = 1
    /\ store[1].props.GarminID = activities[1].activityId


\* C28 (as claimed): in both scripts no step of a run replaces the external
\* id that a stored document carries by a different one; a record that is not
\* found by id and that the heuristic lookup matches to a document carrying
\* another external id is not written over that document
C28_NoWrongOverwrite ==
    [][\A i \in 1..Len(store) :
          store[i].props.GarminID # NoneNum
              => store'[i].props.GarminID = store[i].props.GarminID]_vars


-----------------------------------------------------------------------------
(* Properties of the personal records *)

\* the documents of the database db that are the current record of `name`
Current(db, name) == {k \in 1..Len(db) : db[k].Record = name /\ db[k].PR}

\* C30 (as claimed): for each record name of which the database held exactly
\* one document with PR = true when sync_personal_records started, it holds
\* exactly one after every record the function has processed, also when a
\* store call failed; a feed record that is newer than the current document
\* has that document un-flagged and a new one created, and one that is not
\* newer causes no write
C30_OneCurrentRecord ==
    fn.op = "records" =>
        /\ \A name \in {fn.db0[k].Record : k \in 1..Len(fn.db0)} :
              Cardinality(Current(fn.db0, name)) = 1
                  => Cardinality(Current(fn.db, name)) = 1
        /\ fn.found = "not newer" => fn.writes = <<>>
        /\ fn.found = "newer" =>
              /\ Len(fn.writes) = 2
              /\ fn.writes[1].op = "pages.update"
              /\ fn.writes[2].op = "pages.create"


-----------------------------------------------------------------------------
(* Properties of the daily syncs: one document per date *)

\* C29 (as claimed): in the four daily loops, for each date of the window: if
\* the database holds a document for the date, neither the feed nor
\* pages.create is called and the date is counted as skipped; otherwise the
\* feed is called at most once and pages.create at most once, and only for a
\* positive total; a second run over the same dates creates no document for a
\* date that has one
C29_AsClaimed ==
    (daily.st \in {"loop", "done"} /\ daily.last.date # NoneNum) =>
        /\ daily.last.had =>
              /\ daily.last.feed_calls = 0
              /\ daily.last.create_calls = 0
              /\ daily.skipped = daily.last.skipped + 1
        /\ daily.last.feed_calls <= 1
        /\ daily.last.create_calls <= 1
        /\ daily.last.create_calls = 1 => daily.last.total > 0
        /\ daily.last.create_calls = 1 => daily.last.date \notin daily.pages0

\* C29 (amended): the same, the date that has a document being counted as
\* skipped when the query for it returns and as an error when the query fails
C29_NoDuplicateDate ==
    (daily.st \in {"loop", "done"} /\ daily.last.date # NoneNum) =>
        /\ daily.last.had =>
              /\ daily.last.feed_calls = 0
              /\ daily.last.create_calls = 0
              /\ IF daily.last.query = NoneStr
                 THEN /\ daily.skipped = daily.last.skipped + 1
                      /\ daily.errors = daily.last.errors
                 ELSE /\ daily.skipped = daily.last.skipped
                      /\ daily.errors = daily.last.errors + 1
        /\ daily.last.feed_calls <= 1
        /\ daily.last.create_calls <= 1
        /\ daily.last.create_calls = 1 =>
              /\ daily.last.total > 0
              /\ daily.last.feed_calls = 1
              /\ ~daily.last.had
              /\ daily.last.date \notin daily.pages0
        /\ Cardinality(daily.pages) = Cardinality(daily.pages0) + daily.created

\* C29 witness: in a second run, the date that the first run created a
\* document for was skipped without a call of the feed
C29_Witness ==
    /\ daily.st \in {"loop", "done"}
    /\ daily.run = 2
    /\ daily.last.date = 0
    /\ daily.last.had
    /\ daily.last.query = NoneStr
    /\ daily.last.feed_calls = 0
    /\ daily.last.create_calls = 0
    /\ daily.skipped = 1
    /\ daily.created = 0

====
